---- MODULE Spec2Model ----
(***************************************************************************)
(* A model of ntpnode.py: the NTPv4/NTPv5 codec, the client and server     *)
(* state machines and the node's source selection.                        *)
(*                                                                         *)
(* Representation.                                                         *)
(*  - Python's None in an integer field is NoneInt; an absent record or    *)
(*    extension field value is Nothing, a present one is Just(v).          *)
(*  - The 4096-bit integers reference_ids / own_reference_id are the sets  *)
(*    of their set bit positions (bit p stands for 1 << p), so | is \cup,  *)
(*    & is \cap and << n adds n to every position.                         *)
(*  - A datagram is its length, its header fields and the sequence of      *)
(*    extension fields its bytes after the header parse into; bytes that   *)
(*    the sequence does not describe are zero.                             *)
(*  - Timestamps and cookies are small naturals; root delay and root       *)
(*    dispersion are in milliseconds, timestamps in clock ticks of one     *)
(*    millisecond (TicksPerSecond stands for 2**32).                       *)
(***************************************************************************)
EXTENDS Integers, Sequences, FiniteSets, TLC

VARIABLES
    \* NtpServer
    saved_timestamps,   \* map: key (receive_ts) -> transmit timestamp
    timestamp_queue,    \* deque of keys, oldest first
    server,             \* the reference block set by set_reference
    own_reference_id,   \* set of bit positions
    \* NtpNode
    clients,            \* address -> NtpClient state
    selection_delays,   \* address -> int
    selected_sources,   \* sequence of addresses
    \* the sockets: what the last handler run read and wrote
    srv_in,             \* the datagram receive_request read (Nothing before any)
    srv_rx_ts,          \* the receive_ts receive_request captured for it
    srv_out,            \* Just(datagram sent) or Nothing if nothing was sent
    net,                \* the datagrams in flight, or the last one delivered
    \* control
    op,                 \* name of the last handler that ran
    raised,             \* exception that escaped a handler into the event loop
    \* history
    revealed,           \* keys whose saved entry was handed out, per version
    hist                \* what the run has done so far, per specification

vars == <<saved_timestamps, timestamp_queue, server, own_reference_id, clients,
          selection_delays, selected_sources, srv_in, srv_rx_ts, srv_out, net,
          op, raised, revealed, hist>>

-----------------------------------------------------------------------------
(* Bounds of the model *)

\* Stand-in for NtpServer.max_timestamps (1000 in the source), scaled down so
\* that eviction happens.
max_timestamps == 2

\* Polls without a response after which the node is not polled again
MaxPolls == 3

\* The number of requests a client sends to the server it negotiates with
MaxRequests == 4

\* send_request is not called again once this many responses were missed
MaxMissed == 10

\* The local clock of a client stops at MaxTicks
MaxTicks == 8

-----------------------------------------------------------------------------
(* Program constants *)

NoneInt == -1

Nothing == [some |-> FALSE]
Just(v) == [some |-> TRUE, val |-> v]

MODE_CLIENT == 3
MODE_SERVER == 4

LEAP_NORMAL == 0
LEAP4_UNSYNCHRONIZED == 3
LEAP5_UNKNOWN == 3

TIMESCALE_UTC == 0

FLAG_SYNCHRONIZED == 1
FLAG_INTERLEAVED == 2

OUR_DRAFT_ID == "draft-ietf-ntp-ntpv5-02+"

REFERENCE_IDS_OCTETS == 4096 \div 8

\* Stand-in for struct.unpack("!Q", b"NTP5DRFT")[0], a value no clock read
\* of the model returns.
NTP5_MAGIC == 77

\* Stand-in for 2**32: clock ticks per second.
TicksPerSecond == 1000

Min(a, b) == IF a < b THEN a ELSE b
Max(a, b) == IF a > b THEN a ELSE b
Abs(a) == IF a < 0 THEN -a ELSE a

\* flags & f != 0, for f a power of two
HasFlag(flags, f) == (flags \div f) % 2 = 1
\* flags | f
SetFlag(flags, f) == IF HasFlag(flags, f) THEN flags ELSE flags + f

\* len(s) of the ASCII strings that occur as a draft ID
StrLen(s) ==
    CASE s = OUR_DRAFT_ID -> 24
      [] s = "draft-ietf-ntp-ntpv5-01" -> 23
      [] OTHER -> 0

-----------------------------------------------------------------------------
(* NtpMessage: the codec *)

\* round up to a multiple of 4: (ef_len + 3) & 0xfffc
Pad4(n) == ((n + 3) \div 4) * 4

\* An extension field as it lies in a datagram. num: the integer its body
\* starts with (offset, bitmap or timestamp); bits: a REFERENCE_IDS_RESP body
\* read as a big-endian integer; text: a DRAFT_ID body.
EF(type, ef_len, num, bits, text, scale, era) ==
    [type |-> type, ef_len |-> ef_len, num |-> num, bits |-> bits,
     text |-> text, scale |-> scale, era |-> era]

\* The bytes the extension-field sequence does not describe are zero.
ZeroEF == EF("ZERO", 0, 0, {}, "", 0, 0)

\* A DRAFT_ID body that is not ASCII
NON_ASCII == "<non-ascii>"

NoEFs == [server_info |-> Nothing, reference_ids_req |-> Nothing,
          reference_ids_resp |-> Nothing, reference_ts_ |-> Nothing,
          secondary_rx_ts |-> Nothing, draft_id |-> Nothing, err |-> "none"]

\* One pass of the body of decode's while loop, after the length checks
DecodeEF(acc, ef) ==
    CASE ef.type = "REFERENCE_IDS_REQ" ->
            [acc EXCEPT !.reference_ids_req = Just(<<ef.num, ef.ef_len - 4>>)]
      [] ef.type = "REFERENCE_IDS_RESP" ->
            [acc EXCEPT !.reference_ids_resp =
                            Just([nbytes |-> ef.ef_len - 4, bits |-> ef.bits])]
      [] ef.type = "SERVER_INFO" /\ ef.ef_len = 8 ->
            [acc EXCEPT !.server_info = Just(ef.num)]
      [] ef.type = "REFERENCE_TS" /\ ef.ef_len = 12 ->
            [acc EXCEPT !.reference_ts_ = Just(ef.num)]
      [] ef.type = "SECONDARY_RX_TS" /\ ef.ef_len = 16 ->
            IF ef.scale = TIMESCALE_UTC
            THEN [acc EXCEPT !.secondary_rx_ts =
                     Just([t \in {TIMESCALE_UTC} |-> <<ef.era, ef.num>>])]
            ELSE acc
      [] ef.type = "DRAFT_ID" ->
            IF ef.text = NON_ASCII THEN acc
            ELSE [acc EXCEPT !.draft_id = Just(ef.text)]
      [] OTHER -> acc

\* decode's while loop over the bytes after the header: i is the next
\* extension field, rem the number of bytes left.
RECURSIVE DecodeEFs(_, _, _, _, _)
DecodeEFs(version, efs, i, rem, acc) ==
    IF rem <= 0 THEN acc
    ELSE IF version = 4 /\ rem <= 24 THEN acc
    ELSE LET ef == IF i <= Len(efs) THEN efs[i] ELSE ZeroEF IN
         IF \/ ef.ef_len > rem
            \/ ef.ef_len < 4
            \/ (version = 4 /\ (ef.ef_len < 16 \/ ef.ef_len % 4 # 0))
         THEN [acc EXCEPT !.err = "ValueError"]
         \* struct.unpack("!H", extensions[4:6]) on fewer than two bytes
         ELSE IF ef.type = "REFERENCE_IDS_REQ" /\ rem < 6
         THEN [acc EXCEPT !.err = "struct.error"]
         ELSE DecodeEFs(version, efs, i + 1, rem - Pad4(ef.ef_len),
                        DecodeEF(acc, ef))

Failed(e) == [ok |-> FALSE, err |-> e]

\* The length check of decode
LongEnough(d) == d.len >= 48

ValidLength(d) == ~(d.len < 48 \/ d.len % 4 # 0)

\* NtpMessage.decode: [ok |-> TRUE, msg |-> m] or [ok |-> FALSE, err |-> e]
Decode(d) ==
    IF ~ValidLength(d) THEN Failed("ValueError")
    ELSE IF d.mode \notin {MODE_CLIENT, MODE_SERVER} THEN Failed("ValueError")
    ELSE IF d.version \notin {4, 5} THEN Failed("ValueError")
    ELSE IF d.version = 5 /\ d.timescale \notin 0..3 THEN Failed("ValueError")
    ELSE LET x == DecodeEFs(d.version, d.efs, 1, d.len - 48, NoEFs)
             v5 == d.version = 5
         IN IF x.err # "none" THEN Failed(x.err)
            ELSE IF v5 /\ x.draft_id = Nothing THEN Failed("ValueError")
            ELSE IF v5 /\ x.draft_id # Just(OUR_DRAFT_ID) THEN Failed("ValueError")
            ELSE [ok |-> TRUE, msg |->
                   [version |-> d.version, mode |-> d.mode,
                    stratum |-> d.stratum, poll |-> d.poll,
                    precision |-> d.precision,
                    root_delay |-> d.root_delay, root_disp |-> d.root_disp,
                    receive_ts |-> d.receive_ts, transmit_ts |-> d.transmit_ts,
                    leap5 |-> IF v5 THEN d.leap ELSE NoneInt,
                    timescale |-> IF v5 THEN d.timescale ELSE TIMESCALE_UTC,
                    era |-> IF v5 THEN d.era ELSE NoneInt,
                    flags |-> IF v5 THEN d.flags ELSE NoneInt,
                    server_cookie |-> IF v5 THEN d.server_cookie ELSE NoneInt,
                    client_cookie |-> IF v5 THEN d.client_cookie ELSE NoneInt,
                    leap4 |-> IF v5 THEN NoneInt ELSE d.leap,
                    reference_id |-> IF v5 THEN NoneInt ELSE d.reference_id,
                    reference_ts |-> IF v5 THEN NoneInt ELSE d.reference_ts,
                    origin_ts |-> IF v5 THEN NoneInt ELSE d.origin_ts,
                    server_info |-> x.server_info,
                    reference_ids_req |-> x.reference_ids_req,
                    reference_ids_resp |-> x.reference_ids_resp,
                    reference_ts_ |-> x.reference_ts_,
                    secondary_rx_ts |-> x.secondary_rx_ts,
                    draft_id |-> x.draft_id]]

\* get_rint: the wire value saturates at 0xffffffff, which is 16 s in the
\* Q4.28 format of NTPv5 and 65536 s in the Q16.16 format of NTPv4.
GetRint(version, value) ==
    IF version = 5 THEN Min(value, 16000) ELSE Min(value, 65536000)

\* The stratum octet encode writes
StratumBelowFifteen(stratum) == IF stratum < 15 THEN stratum ELSE 0

EncodeStratum(stratum) == IF stratum < 16 THEN stratum ELSE 0

\* The SECONDARY_RX_TS field encode appends for timescale t of the dict
SecondaryEF(secondary_rx_ts, t) ==
    IF t \in DOMAIN secondary_rx_ts
    THEN <<EF("SECONDARY_RX_TS", 16, secondary_rx_ts[t][2], {}, "", t,
              secondary_rx_ts[t][1])>>
    ELSE <<>>

\* encode_ef: the extension fields of a message, in the order encode appends
\* them.
EncodeEFs(m) ==
    (IF m.server_info # Nothing
     THEN <<EF("SERVER_INFO", 8, m.server_info.val, {}, "", 0, 0)>> ELSE <<>>)
    \o (IF m.reference_ids_req # Nothing
        THEN <<EF("REFERENCE_IDS_REQ",
                  4 + 2 + Max(0, m.reference_ids_req.val[2] - 2),
                  m.reference_ids_req.val[1], {}, "", 0, 0)>> ELSE <<>>)
    \o (IF m.reference_ids_resp # Nothing
        THEN <<EF("REFERENCE_IDS_RESP", 4 + m.reference_ids_resp.val.nbytes,
                  0, m.reference_ids_resp.val.bits, "", 0, 0)>> ELSE <<>>)
    \o (IF m.reference_ts_ # Nothing
        THEN <<EF("REFERENCE_TS", 12, m.reference_ts_.val, {}, "", 0, 0)>>
        ELSE <<>>)
    \o (IF m.secondary_rx_ts # Nothing
        THEN SecondaryEF(m.secondary_rx_ts.val, 0)
             \o SecondaryEF(m.secondary_rx_ts.val, 1)
             \o SecondaryEF(m.secondary_rx_ts.val, 2)
             \o SecondaryEF(m.secondary_rx_ts.val, 3)
        ELSE <<>>)
    \o (IF m.draft_id # Nothing
        THEN <<EF("DRAFT_ID", 4 + StrLen(m.draft_id.val), 0, {},
                  m.draft_id.val, 0, 0)>> ELSE <<>>)

RECURSIVE EFsLen(_)
EFsLen(efs) == IF efs = <<>> THEN 0
               ELSE Pad4(Head(efs).ef_len) + EFsLen(Tail(efs))

\* NtpMessage.encode(target_len): the datagram of message m
Encode(m, target_len) ==
    LET efs == EncodeEFs(m)
        n == 48 + EFsLen(efs)
        v5 == m.version = 5
        padded == n < target_len /\ v5
        all == IF padded
               THEN efs \o <<EF("PADDING", target_len - n, 0, {}, "", 0, 0)>>
               ELSE efs
    IN [len |-> 48 + EFsLen(all),
        version |-> m.version, mode |-> m.mode,
        leap |-> IF v5 THEN m.leap5 ELSE m.leap4,
        stratum |-> EncodeStratum(m.stratum),
        poll |-> m.poll, precision |-> m.precision,
        root_delay |-> GetRint(m.version, m.root_delay),
        root_disp |-> GetRint(m.version, m.root_disp),
        receive_ts |-> m.receive_ts, transmit_ts |-> m.transmit_ts,
        timescale |-> IF v5 THEN m.timescale ELSE 0,
        era |-> IF v5 THEN m.era ELSE 0,
        flags |-> IF v5 THEN m.flags ELSE 0,
        server_cookie |-> IF v5 THEN m.server_cookie ELSE 0,
        client_cookie |-> IF v5 THEN m.client_cookie ELSE 0,
        reference_id |-> IF v5 THEN 0 ELSE m.reference_id,
        reference_ts |-> IF v5 THEN 0 ELSE m.reference_ts,
        origin_ts |-> IF v5 THEN 0 ELSE m.origin_ts,
        efs |-> all]

-----------------------------------------------------------------------------
(* NtpServer *)

\* The -r option (dispersion rate, seconds per second) of the model's nodes
dispersion_rate == 1

\* dict helpers
MapPop(m, k) == [x \in DOMAIN m \ {k} |-> m[x]]
MapPut(m, k, v) == [x \in DOMAIN m \cup {k} |-> IF x = k THEN v ELSE m[x]]

\* reference_ids.to_bytes(REFERENCE_IDS_OCTETS, 'big')[offset:offset+length]:
\* the byte run, as its length and the big-endian integer it holds
RefidsSlice(reference_ids, offset, length) ==
    LET o == Min(offset, REFERENCE_IDS_OCTETS)
        e == Max(o, Min(offset + length, REFERENCE_IDS_OCTETS))
        low == 8 * (REFERENCE_IDS_OCTETS - e)
        high == 8 * (REFERENCE_IDS_OCTETS - o)
    IN [nbytes |-> e - o,
        bits |-> {b - low : b \in {x \in reference_ids : low <= x /\ x < high}}]

\* to_bytes raises OverflowError when the integer needs more than 512 octets
RefidsOverflow(reference_ids) ==
    \E b \in reference_ids : b >= 8 * REFERENCE_IDS_OCTETS

\* NtpServer.set_reference
SetReferenceMissingOwn(srv, own, stratum, reference_id, reference_ids, reference_ts, root_delay, root_disp) ==
    [stratum |-> stratum, reference_id |-> reference_id,
     reference_ids |-> reference_ids,
     reference_ts |-> reference_ts, root_delay |-> root_delay,
     root_disp |-> root_disp,
     leap4 |-> IF stratum > 0 THEN LEAP_NORMAL ELSE LEAP4_UNSYNCHRONIZED,
     leap5 |-> IF stratum > 0 THEN LEAP_NORMAL ELSE LEAP5_UNKNOWN,
     flags |-> IF stratum > 0 THEN FLAG_SYNCHRONIZED ELSE 0]

SetReference(srv, own, stratum, reference_id, reference_ids, reference_ts, root_delay, root_disp) ==
    [stratum |-> stratum, reference_id |-> reference_id,
     reference_ids |-> own \cup reference_ids,
     reference_ts |-> reference_ts, root_delay |-> root_delay,
     root_disp |-> root_disp,
     leap4 |-> IF stratum > 0 THEN LEAP_NORMAL ELSE LEAP4_UNSYNCHRONIZED,
     leap5 |-> IF stratum > 0 THEN LEAP_NORMAL ELSE LEAP5_UNKNOWN,
     flags |-> IF stratum > 0 THEN FLAG_SYNCHRONIZED ELSE 0]

\* NtpServer.__init__: the reference block after construction. The
\* reference_ts read from the clock is overwritten by set_reference.
NewServer(own, local_reference) ==
    IF local_reference
    THEN SetReference(Nothing, own, 1, 2139029505, {}, 0, 0, 0)
    ELSE SetReference(Nothing, own, 0, 0, {}, 0, 0, 0)

\* The v4 branch of make_response takes the interleaved path
V4Interleaved(saved, request) ==
    /\ request.receive_ts # request.transmit_ts
    /\ request.origin_ts \in DOMAIN saved

\* The v5 branch of make_response takes the interleaved path
V5Interleaved(saved, request) ==
    /\ HasFlag(request.flags, FLAG_INTERLEAVED)
    /\ request.server_cookie # 0
    /\ request.server_cookie \in DOMAIN saved

\* The cookies of an NTPv5 response
ServerCookieNever(request, receive_ts) == 0

ResponseServerCookie(request, receive_ts) ==
    IF HasFlag(request.flags, FLAG_INTERLEAVED) THEN receive_ts ELSE 0

ClientCookieOfServer(request) == request.server_cookie

ResponseClientCookie(request) == request.client_cookie

\* NtpServer.make_response: the response message and the map it leaves
MakeResponseNoPop(srv, saved, request, receive_ts, transmit_ts) ==
    LET x4 == request.version = 4 /\ V4Interleaved(saved, request)
    IN [saved |-> saved,
        response |->
          [version |-> 4, mode |-> MODE_SERVER,
           stratum |-> srv.stratum, poll |-> request.poll,
           precision |-> -20,
           root_delay |-> srv.root_delay, root_disp |-> srv.root_disp,
           receive_ts |-> receive_ts,
           transmit_ts |-> IF x4 THEN saved[request.origin_ts]
                           ELSE transmit_ts,
           leap5 |-> srv.leap5, timescale |-> NoneInt, era |-> NoneInt,
           flags |-> NoneInt, server_cookie |-> NoneInt,
           client_cookie |-> NoneInt, leap4 |-> srv.leap4,
           reference_id |-> srv.reference_id,
           reference_ts |-> srv.reference_ts,
           origin_ts |-> IF x4 THEN request.receive_ts
                         ELSE request.transmit_ts,
           server_info |-> Nothing, reference_ids_req |-> Nothing,
           reference_ids_resp |-> Nothing, reference_ts_ |-> Nothing,
           secondary_rx_ts |-> Nothing, draft_id |-> Nothing]]

MakeResponse(srv, saved, request, receive_ts, transmit_ts) ==
    LET root_disp ==
            IF srv.stratum > 1
            THEN srv.root_disp
                 + ((Abs(transmit_ts - srv.reference_ts) * 1000)
                        \div TicksPerSecond) * dispersion_rate
            ELSE srv.root_disp
        v5 == request.version = 5
        x5 == v5 /\ V5Interleaved(saved, request)
        x4 == ~v5 /\ V4Interleaved(saved, request)
    IN [saved |-> IF x4 THEN MapPop(saved, request.origin_ts) ELSE saved,
        response |->
          [version |-> request.version, mode |-> MODE_SERVER,
           stratum |-> srv.stratum, poll |-> request.poll,
           precision |-> -20,
           root_delay |-> srv.root_delay, root_disp |-> root_disp,
           receive_ts |-> receive_ts,
           transmit_ts |-> IF x5 THEN saved[request.server_cookie]
                           ELSE IF x4 THEN saved[request.origin_ts]
                           ELSE transmit_ts,
           leap5 |-> srv.leap5,
           timescale |-> IF v5 THEN TIMESCALE_UTC ELSE NoneInt,
           era |-> IF v5 THEN 0 ELSE NoneInt,
           flags |-> IF ~v5 THEN NoneInt
                     ELSE IF x5 THEN SetFlag(srv.flags, FLAG_INTERLEAVED)
                     ELSE srv.flags,
           server_cookie |-> IF ~v5 THEN NoneInt
                             ELSE ResponseServerCookie(request, receive_ts),
           client_cookie |-> IF v5 THEN ResponseClientCookie(request)
                             ELSE NoneInt,
           leap4 |-> srv.leap4,
           reference_id |-> IF v5 THEN NoneInt ELSE srv.reference_id,
           reference_ts |-> IF v5 THEN NoneInt
                            ELSE IF request.reference_ts = NTP5_MAGIC
                            THEN NTP5_MAGIC ELSE srv.reference_ts,
           origin_ts |-> IF v5 THEN NoneInt
                         ELSE IF x4 THEN request.receive_ts
                         ELSE request.transmit_ts,
           server_info |-> IF v5 /\ request.server_info # Nothing
                           THEN Just(8 + 16) ELSE Nothing,
           reference_ids_req |-> Nothing,
           reference_ids_resp |->
               IF v5 /\ request.reference_ids_req # Nothing
               THEN Just(RefidsSlice(srv.reference_ids,
                                     request.reference_ids_req.val[1],
                                     request.reference_ids_req.val[2]))
               ELSE Nothing,
           reference_ts_ |-> IF v5 /\ request.reference_ts_ # Nothing
                             THEN Just(srv.reference_ts) ELSE Nothing,
           secondary_rx_ts |->
               IF v5 /\ request.secondary_rx_ts # Nothing
               THEN IF TIMESCALE_UTC \in DOMAIN request.secondary_rx_ts.val
                    THEN Just([t \in {TIMESCALE_UTC} |-> <<0, receive_ts>>])
                    ELSE Just(<<>>)
               ELSE Nothing,
           draft_id |-> IF v5 /\ request.draft_id # Nothing
                        THEN Just(OUR_DRAFT_ID) ELSE Nothing]]

\* NtpServer.save_timestamps; ok is the conjunction of its three assertions
SaveTimestampsNoEvict(saved, queue, receive_ts, transmit_ts) ==
    [ok |-> /\ receive_ts \notin DOMAIN saved
            /\ Cardinality(DOMAIN saved) <= max_timestamps
            /\ Cardinality(DOMAIN saved) <= Len(queue),
     saved |-> MapPut(saved, receive_ts, transmit_ts),
     queue |-> Append(queue, receive_ts)]

SaveTimestamps(saved, queue, receive_ts, transmit_ts) ==
    LET s1 == MapPut(saved, receive_ts, transmit_ts)
        q1 == Append(queue, receive_ts)
    IN [ok |-> /\ receive_ts \notin DOMAIN saved
               /\ Cardinality(DOMAIN saved) <= max_timestamps
               /\ Cardinality(DOMAIN saved) <= Len(queue),
        saved |-> IF Len(q1) > max_timestamps THEN MapPop(s1, Head(q1)) ELSE s1,
        queue |-> IF Len(q1) > max_timestamps THEN Tail(q1) ELSE q1]

\* receive_request's loop: while receive_ts in saved_timestamps: receive_ts += 1
RECURSIVE FreeKey(_, _)
FreeKey(saved, receive_ts) ==
    IF receive_ts \in DOMAIN saved THEN FreeKey(saved, receive_ts + 1)
    ELSE receive_ts

\* request_len = len(message)
RequestLenOfBuffer(d) == 1024

RequestLen(d) == d.len

\* len(message) > request_len: the response must not be sent
TooLong(message, request_len) == message.len > request_len

\* The mode test of receive_request
AnyMode(request) == FALSE

NotClientMode(request) == request.mode # MODE_CLIENT

\* NtpServer.receive_request on datagram d. c1, c2 and c3 are the values the
\* three read_clock calls return (c2 the one that leaves the retry loop),
\* send_ok is whether sock.sendto succeeds. The result: the exception that
\* escapes (or "none"), the datagram sent (or Nothing), the map and the queue.
ReceiveRequestRun(srv, saved, queue, d, c1, c2, c3, send_ok) ==
    LET receive_ts == FreeKey(saved, c1)
        dec == Decode(d)
        quiet == [raised |-> "none", out |-> Nothing, saved |-> saved,
                  queue |-> queue, receive_ts |-> receive_ts]
    IN IF ~dec.ok
       THEN IF dec.err = "ValueError" THEN quiet
            ELSE [quiet EXCEPT !.raised = dec.err]
       ELSE
       LET request == dec.msg
           request_len == RequestLen(d)
       IN IF NotClientMode(request) THEN quiet
          ELSE IF /\ request.version = 5
                  /\ request.reference_ids_req # Nothing
                  /\ RefidsOverflow(srv.reference_ids)
          THEN [quiet EXCEPT !.raised = "OverflowError"]
          ELSE
          LET made == MakeResponse(srv, saved, request, receive_ts, c2)
              unpadded == Encode(made.response, 0)
              message == Encode(made.response, request_len)
              popped == [quiet EXCEPT !.saved = made.saved]
          IN \* encode: assert len(message) + 4 <= target_len
             IF /\ request.version = 5
                /\ unpadded.len < request_len
                /\ unpadded.len + 4 > request_len
             THEN [popped EXCEPT !.raised = "AssertionError"]
             ELSE IF TooLong(message, request_len) THEN popped
             ELSE IF ~send_ok THEN popped
             ELSE LET kept == SaveTimestamps(made.saved, queue, receive_ts, c3)
                  IN IF ~kept.ok
                     THEN [popped EXCEPT !.raised = "AssertionError",
                                         !.out = Just(message)]
                     ELSE [raised |-> "none", out |-> Just(message),
                           saved |-> kept.saved, queue |-> kept.queue,
                           receive_ts |-> receive_ts]

-----------------------------------------------------------------------------
(* NtpClient *)

\* NtpClient.__init__; version is the -v option (4, 5, anything else: auto)
NewClient(version, interleaved, refids_fragments) ==
    [version |-> IF version \in {4, 5} THEN version ELSE 4,
     auto_version |-> version \notin {4, 5},
     interleaved |-> interleaved,
     refids_fragments |-> refids_fragments,
     timescale |-> TIMESCALE_UTC,
     missed_responses |-> 0,
     reference_ids |-> {},
     next_refids_fragment |-> 0,
     complete_refids |-> FALSE,
     last_request |-> Nothing,
     prev_request |-> Nothing,
     prev_response |-> Nothing,
     last_transmit_ts |-> NoneInt,
     prev_transmit_ts |-> NoneInt,
     prev_receive_ts |-> NoneInt,
     reference_id |-> NoneInt,
     sample |-> Nothing]

\* The interleaved flag make_request computes
RequestInterleavedAnyVersion(c) ==
    /\ c.interleaved
    /\ c.prev_response # Nothing
    /\ c.missed_responses <= 4

RequestInterleaved(c) ==
    /\ c.interleaved
    /\ c.prev_response # Nothing
    /\ c.prev_response.val.version = c.version
    /\ c.missed_responses <= 4

\* The reference timestamp of an NTPv4 request
ProbeNever(c) == 0

ProbeReferenceTs(c) == IF c.auto_version THEN NTP5_MAGIC ELSE 0

\* NtpClient.make_request; rnd holds the values random.getrandbits returns
MakeRequest(c, rnd) ==
    LET interleaved == RequestInterleaved(c)
        v5 == c.version = 5
        octets == REFERENCE_IDS_OCTETS \div c.refids_fragments
    IN [version |-> c.version, mode |-> MODE_CLIENT, stratum |-> 0,
        poll |-> 0, precision |-> 0, root_delay |-> 0, root_disp |-> 0,
        receive_ts |-> IF ~v5 /\ interleaved THEN rnd.receive_ts ELSE 0,
        transmit_ts |-> IF v5 THEN 0 ELSE rnd.transmit_ts,
        leap5 |-> LEAP_NORMAL,
        timescale |-> IF v5 THEN c.timescale ELSE NoneInt,
        era |-> IF v5 THEN 0 ELSE NoneInt,
        flags |-> IF ~v5 THEN NoneInt
                  ELSE IF c.interleaved THEN FLAG_INTERLEAVED ELSE 0,
        server_cookie |-> IF ~v5 THEN NoneInt
                          ELSE IF interleaved
                          THEN c.prev_response.val.server_cookie ELSE 0,
        client_cookie |-> IF v5 THEN rnd.client_cookie ELSE NoneInt,
        leap4 |-> LEAP_NORMAL,
        reference_id |-> IF v5 THEN NoneInt ELSE 0,
        reference_ts |-> IF v5 THEN NoneInt ELSE ProbeReferenceTs(c),
        origin_ts |-> IF v5 THEN NoneInt
                      ELSE IF interleaved THEN c.prev_response.val.receive_ts
                      ELSE 0,
        server_info |-> IF v5 THEN Just(0) ELSE Nothing,
        reference_ids_req |->
            IF v5 THEN Just(<<c.next_refids_fragment * octets, octets>>)
            ELSE Nothing,
        reference_ids_resp |-> Nothing,
        reference_ts_ |-> IF v5 THEN Just(0) ELSE Nothing,
        secondary_rx_ts |->
            IF v5 THEN Just([t \in {c.timescale} |-> <<0, 0>>]) ELSE Nothing,
        draft_id |-> IF v5 THEN Just(OUR_DRAFT_ID) ELSE Nothing]

\* The number of missed responses after which send_request gives up NTPv5
DowngradeAfterSeven(c) == c.missed_responses + 1 > 7

Downgrade(c) == c.missed_responses + 1 > 8

\* NtpClient.send_request: the client after it; the datagram it sends is
\* Encode(last_request.val, 0). now is what read_clock returns.
SendRequestRun(c, rnd, now) ==
    LET c1 == [c EXCEPT !.missed_responses = @ + 1,
                        !.version = IF c.auto_version /\ c.version = 5
                                       /\ Downgrade(c)
                                    THEN 4 ELSE @]
    IN [c1 EXCEPT !.prev_request = c.last_request,
                  !.last_request = Just(MakeRequest(c1, rnd)),
                  !.prev_transmit_ts = c.last_transmit_ts,
                  !.last_transmit_ts = now]

\* The octet range [start, end) merge_refids_fragment writes
FragmentStart(c) ==
    c.next_refids_fragment * (REFERENCE_IDS_OCTETS \div c.refids_fragments)
FragmentEnd(c) ==
    Min(REFERENCE_IDS_OCTETS,
        FragmentStart(c) + (REFERENCE_IDS_OCTETS \div c.refids_fragments))

\* NtpClient.merge_refids_fragment; fragment is the set of bits of the
\* integer int.from_bytes made of the fragment
MergeKeepingAll(c, fragment) ==
    LET end == FragmentEnd(c)
    IN [c EXCEPT
          !.reference_ids =
              c.reference_ids
                 \cup {b + (REFERENCE_IDS_OCTETS - end) * 8 : b \in fragment},
          !.next_refids_fragment =
              IF end < REFERENCE_IDS_OCTETS THEN @ + 1 ELSE 0,
          !.complete_refids =
              IF end < REFERENCE_IDS_OCTETS THEN @ ELSE TRUE]

MergeRefidsFragment(c, fragment) ==
    LET start == FragmentStart(c)
        end == FragmentEnd(c)
        \* mask: the top 8*start bits and the low 8*(OCTETS - end) bits
        InMask(b) ==
            \/ /\ 8 * (REFERENCE_IDS_OCTETS - start) <= b
               /\ b < 8 * REFERENCE_IDS_OCTETS
            \/ b < 8 * (REFERENCE_IDS_OCTETS - end)
    IN [c EXCEPT
          !.reference_ids =
              {b \in c.reference_ids : InMask(b)}
                 \cup {b + (REFERENCE_IDS_OCTETS - end) * 8 : b \in fragment},
          !.next_refids_fragment =
              IF end < REFERENCE_IDS_OCTETS THEN @ + 1 ELSE 0,
          !.complete_refids =
              IF end < REFERENCE_IDS_OCTETS THEN @ ELSE TRUE]

\* The pairing step of receive_response: "bogus", or whether the response
\* is an interleaved one
Pairing(c, response) ==
    IF response.version = 5
    THEN IF response.client_cookie # c.last_request.val.client_cookie
         THEN "bogus"
         ELSE IF HasFlag(response.flags, FLAG_INTERLEAVED)
         THEN "interleaved" ELSE "basic"
    ELSE IF response.origin_ts = c.last_request.val.receive_ts
         THEN "interleaved"
         ELSE IF response.origin_ts = c.last_request.val.transmit_ts
         THEN "basic" ELSE "bogus"

\* The "Unsynchronized response" test of receive_response
Unsynchronized(response) ==
    \/ response.version = 5 /\ ~HasFlag(response.flags, FLAG_SYNCHRONIZED)
    \/ response.version = 4 /\ ~(response.leap4 # LEAP4_UNSYNCHRONIZED)
    \/ response.stratum = 0
    \/ response.root_delay + 2 * response.root_disp > 2 * 16000

\* NtpSample of a response with timestamps T1..T4 (offset is kept doubled,
\* in ticks: offset_x2 = (T2 - T1) + (T3 - T4))
Sample(response, T1, T2, T3, T4) ==
    LET delay == (Abs((T4 - T1) - (T3 - T2)) * 1000) \div TicksPerSecond
    IN [offset_x2 |-> (T2 - T1) + (T3 - T4),
        delay |-> delay,
        disp |-> delay * dispersion_rate,
        root_delay |-> delay + response.root_delay,
        root_disp |-> delay * dispersion_rate + response.root_disp,
        stratum |-> response.stratum]

\* "Upgrade to NTPv5 is supported by the server"
UpgradeAnyClient(c, response) ==
    c.version = 4 /\ response.reference_ts = NTP5_MAGIC

Upgrade(c, response) ==
    c.auto_version /\ c.version = 4 /\ response.reference_ts = NTP5_MAGIC

\* "Ignore unexpected responses"
UnexpectedMode(c, response) == response.mode # MODE_SERVER

Unexpected(c, response) ==
    c.missed_responses = 0 \/ response.mode # MODE_SERVER

\* NtpClient.receive_response on datagram d (Nothing: sock.recv raised);
\* now is what read_clock returns. The result: the client after it and the
\* exception that escapes (or "none"), and whether it published a sample
\* (lines 444-455).
ReceiveResponseRun(c, d, now) ==
    LET same == [client |-> c, raised |-> "none", accepted |-> FALSE]
    IN IF d = Nothing THEN same
       ELSE
       LET dec == Decode(d.val)
       IN IF ~dec.ok
          THEN IF dec.err = "ValueError" THEN same
               ELSE [same EXCEPT !.raised = dec.err]
          ELSE
          LET response == dec.msg
          IN IF Unexpected(c, response)
             THEN same
             ELSE
             LET pairing == Pairing(c, response)
                 v5 == response.version = 5
                 \* lines 406 and 410
                 c1 == [c EXCEPT
                          !.reference_ids = IF v5 THEN @ ELSE {},
                          !.reference_id = response.reference_id]
                 \* lines 423-428
                 c2 == IF ~v5 THEN c1
                       ELSE IF response.reference_ids_resp # Nothing
                       THEN MergeRefidsFragment(
                                c1, response.reference_ids_resp.val.bits)
                       ELSE [c1 EXCEPT !.reference_ids = {}]
                 interleaved == pairing = "interleaved"
             IN IF pairing = "bogus" THEN same
                ELSE IF Unsynchronized(response)
                THEN [same EXCEPT !.client = c1]
                ELSE IF response.timescale # c.timescale
                THEN [same EXCEPT !.client = c1]
                \* self.prev_response.receive_ts with prev_response None
                ELSE IF interleaved /\ c.prev_response = Nothing
                THEN [client |-> c2, raised |-> "AttributeError",
                      accepted |-> FALSE]
                ELSE
                LET sample ==
                      IF interleaved
                      THEN Sample(response, c.prev_transmit_ts,
                                  c.prev_response.val.receive_ts,
                                  response.transmit_ts, c.prev_receive_ts)
                      ELSE Sample(response, c.last_transmit_ts,
                                  response.receive_ts, response.transmit_ts,
                                  now)
                IN [raised |-> "none", accepted |-> TRUE,
                    client |->
                      [c2 EXCEPT
                         !.sample = Just(sample),
                         !.prev_response = Just(response),
                         !.prev_receive_ts = now,
                         !.missed_responses = 0,
                         !.version =
                            IF Upgrade(c, response) THEN 5 ELSE @]]

-----------------------------------------------------------------------------
(* Datagrams the model delivers *)

Datagram(len, version, mode, efs) ==
    [len |-> len, version |-> version, mode |-> mode, leap |-> 0,
     stratum |-> 0, poll |-> 0, precision |-> 0, root_delay |-> 0,
     root_disp |-> 0, receive_ts |-> 0, transmit_ts |-> 0, timescale |-> 0,
     era |-> 0, flags |-> 0, server_cookie |-> 0, client_cookie |-> 0,
     reference_id |-> 0, reference_ts |-> 0, origin_ts |-> 0, efs |-> efs]

DraftEF == EF("DRAFT_ID", 28, 0, {}, OUR_DRAFT_ID, 0, 0)

\* The extension fields of a request as make_request builds it, asking for
\* `length` octets of the reference IDs at `offset`
RequestEFs(offset, length) ==
    << EF("SERVER_INFO", 8, 0, {}, "", 0, 0),
       EF("REFERENCE_IDS_REQ", 4 + 2 + Max(0, length - 2), offset, {}, "", 0, 0),
       EF("REFERENCE_TS", 12, 0, {}, "", 0, 0),
       EF("SECONDARY_RX_TS", 16, 0, {}, "", TIMESCALE_UTC, 0),
       DraftEF >>

\* NTPv4 requests: basic ones (receive_ts 0, origin_ts 0), one probing for
\* NTPv5, interleaved follow-ups quoting key o, and a mode SERVER message
V4Requests ==
    { [Datagram(48, 4, MODE_CLIENT, <<>>) EXCEPT !.transmit_ts = 5],
      [Datagram(48, 4, MODE_CLIENT, <<>>) EXCEPT !.transmit_ts = 5,
          !.reference_ts = NTP5_MAGIC],
      [Datagram(48, 4, MODE_SERVER, <<>>) EXCEPT !.origin_ts = 1,
          !.receive_ts = 6, !.transmit_ts = 5] }
    \cup
    { [Datagram(48, 4, MODE_CLIENT, <<>>) EXCEPT
          !.origin_ts = o, !.receive_ts = 6, !.transmit_ts = 5]
      : o \in 1..2 }
    \cup
    \* a follow-up of a client that does not support interleaved mode
    { [Datagram(48, 4, MODE_CLIENT, <<>>) EXCEPT
          !.origin_ts = 1, !.receive_ts = 5, !.transmit_ts = 5] }

\* NTPv5 requests: with the draft ID alone, and as make_request builds them
V5Requests ==
    { [Datagram(48 + 28, 5, MODE_CLIENT, <<DraftEF>>) EXCEPT
          !.flags = FLAG_INTERLEAVED, !.server_cookie = k, !.client_cookie = 9]
      : k \in 0..2 }
    \cup
    { [Datagram(48 + 28, 5, MODE_CLIENT, <<DraftEF>>) EXCEPT
          !.server_cookie = 1, !.client_cookie = 9],
      [Datagram(48 + EFsLen(RequestEFs(448, 128)), 5, MODE_CLIENT,
                RequestEFs(448, 128)) EXCEPT
          !.flags = FLAG_INTERLEAVED, !.server_cookie = 1, !.client_cookie = 8] }

\* Datagrams decode does not accept
Malformed ==
    { Datagram(52 - 3, 4, MODE_CLIENT, <<>>),
      \* NTPv5 without a draft ID
      Datagram(48, 5, MODE_CLIENT, <<>>),
      \* a REFERENCE_IDS_REQ header in the last four bytes
      Datagram(48 + 28 + 4, 5, MODE_CLIENT,
               <<DraftEF, EF("REFERENCE_IDS_REQ", 4, 0, {}, "", 0, 0)>>) }

ServerInputs == V4Requests \cup V5Requests \cup Malformed

\* own_reference_id: up to 10 bits drawn from 0..4095
OwnIds == { {0, 4095}, {5, 1030, 2047} }

\* What read_clock returns when receive_request starts: the clock may step
\* backward between two runs, and advances by Elapsed ticks from one read to
\* the next within a run.
ClockReads == {1, 2}
Elapsed == 10

-----------------------------------------------------------------------------
(* The server alone: a node without upstream servers *)

InitServer ==
    /\ saved_timestamps = <<>>
    /\ timestamp_queue = <<>>
    /\ own_reference_id = {0, 4095}
    /\ \E local_reference \in BOOLEAN :
           server = NewServer(own_reference_id, local_reference)
    /\ clients = <<>>
    /\ selection_delays = <<>>
    /\ selected_sources = <<>>
    /\ srv_in = Nothing
    /\ srv_rx_ts = 0
    /\ srv_out = Nothing
    /\ net = Nothing
    /\ op = "init"
    /\ raised = "none"
    /\ revealed = [v4 |-> {}, v5 |-> {}]
    /\ hist = Nothing

\* process_events: the server socket is readable. The clock may have stepped
\* backward since the last run; within one run it advances.
ServeFrom(inputs) ==
    /\ raised = "none"
    /\ \E d \in inputs, c1 \in ClockReads, send_ok \in BOOLEAN :
       \E r \in { ReceiveRequestRun(server, saved_timestamps, timestamp_queue,
                      d, c1, c1 + Elapsed, c1 + 2 * Elapsed, send_ok) } :
       \E dec \in { Decode(d) } :
         LET shown5 == IF /\ r.out # Nothing
                          /\ dec.msg.version = 5
                          /\ V5Interleaved(saved_timestamps, dec.msg)
                       THEN {dec.msg.server_cookie} ELSE {}
             shown4 == IF /\ r.out # Nothing
                          /\ dec.msg.version = 4
                          /\ V4Interleaved(saved_timestamps, dec.msg)
                       THEN {dec.msg.origin_ts} ELSE {}
             \* a key saved by this run names a new entry
             fresh == IF r.out # Nothing /\ r.raised = "none"
                      THEN {r.receive_ts} ELSE {}
         IN /\ c1 + Elapsed # r.receive_ts
            /\ saved_timestamps' = r.saved
            /\ timestamp_queue' = r.queue
            /\ srv_in' = Just(d)
            /\ srv_rx_ts' = r.receive_ts
            /\ srv_out' = r.out
            /\ raised' = r.raised
            /\ revealed' = [v4 |-> (revealed.v4 \cup shown4) \ fresh,
                             v5 |-> ((revealed.v5 \cup shown5) \ fresh)
                                        \cap DOMAIN r.saved]
    /\ op' = "receive_request"
    /\ UNCHANGED <<server, own_reference_id, clients, selection_delays,
                   selected_sources, net>>

ServeDatagram == ServeFrom(ServerInputs)

ReceiveRequest == ServeDatagram /\ UNCHANGED hist

NextServer == ReceiveRequest

SpecServer == InitServer /\ [][NextServer]_vars

-----------------------------------------------------------------------------
(* The server filling its cache from empty *)

\* The history of the cache: the key saved for the first answered request,
\* the keys saved so far, the number of requests answered, whether their
\* keys were all distinct, and whether make_response removed a saved entry
\* for an NTPv4 interleaved request (answered or not)
InitCache ==
    /\ saved_timestamps = <<>>
    /\ timestamp_queue = <<>>
    /\ own_reference_id = {0, 4095}
    /\ server = NewServer(own_reference_id, TRUE)
    /\ clients = <<>>
    /\ selection_delays = <<>>
    /\ selected_sources = <<>>
    /\ srv_in = Nothing
    /\ srv_rx_ts = 0
    /\ srv_out = Nothing
    /\ net = Nothing
    /\ op = "init"
    /\ raised = "none"
    /\ revealed = [v4 |-> {}, v5 |-> {}]
    /\ hist = [first |-> NoneInt, keys |-> {}, answered |-> 0,
               distinct |-> TRUE, consumed |-> FALSE]

\* receive_request, until max_timestamps + 1 requests were answered
FillCache ==
    /\ hist.answered <= max_timestamps
    /\ ServeDatagram
    /\ hist' =
         LET dec == Decode(srv_in'.val)
             popped == /\ dec.ok
                       /\ dec.msg.mode = MODE_CLIENT
                       /\ dec.msg.version = 4
                       /\ V4Interleaved(saved_timestamps, dec.msg)
             h == [hist EXCEPT !.consumed = @ \/ popped]
         IN IF srv_out' = Nothing \/ raised' # "none" THEN h
            ELSE [h EXCEPT
                    !.first = IF hist.answered = 0 THEN srv_rx_ts' ELSE @,
                    !.keys = @ \cup {srv_rx_ts'},
                    !.answered = @ + 1,
                    !.distinct = @ /\ srv_rx_ts' \notin hist.keys]

NextCache == FillCache

SpecCache == InitCache /\ [][NextCache]_vars

-----------------------------------------------------------------------------
(* One client, fed by the network *)

\* What random.getrandbits(64) returns
RandomBits == {1}

\* What read_clock returns in send_request and in receive_response
ClockAtSend == {20}
ClockAtReceive == {40}

\* (version option, interleaved, refids_fragments) of the clients
ClientConfigs ==
    { <<0, TRUE, 4>>, <<4, TRUE, 4>>,
      <<5, FALSE, 1>>, <<5, FALSE, 2>>, <<5, FALSE, 3>>, <<5, TRUE, 4>> }

\* The number of fragment positions: merge_refids_fragment returns to
\* position 0 once FragmentEnd reaches REFERENCE_IDS_OCTETS
Positions(f) ==
    LET octets == REFERENCE_IDS_OCTETS \div f
    IN (REFERENCE_IDS_OCTETS + octets - 1) \div octets

\* The history of the client: the version it had after the last accepted
\* response, the send_request calls since then, and, while every datagram
\* it received was an accepted NTPv5 response carrying a fragment of the
\* length a server returns for the request (fresh): the number of those
\* responses (counted up to Positions + 1) and the last fragment per position;
\* accepts: the samples published since the last send_request (up to 2)
NewHist(c) ==
    [ver_at_accept |-> c.version, sends |-> 0, accepts |-> 0,
     fresh |-> TRUE, run |-> 0,
     frags |-> [p \in 0..(Positions(c.refids_fragments) - 1) |-> {}]]

\* A response was accepted: a sample was published and missed_responses reset
Accepted(c, after) == c.missed_responses > 0 /\ after.missed_responses = 0

HistAfterReceive(h, c, d, after) ==
    LET ok == Accepted(c, after)
        msg == Decode(d.val).msg
        good == /\ ok
                /\ msg.version = 5
                /\ msg.reference_ids_resp # Nothing
                /\ msg.reference_ids_resp.val.nbytes
                       = FragmentEnd(c) - FragmentStart(c)
        fresh == h.fresh /\ good
    IN [ver_at_accept |-> IF ok THEN after.version ELSE h.ver_at_accept,
        sends |-> IF ok THEN 0 ELSE h.sends,
        accepts |-> h.accepts,
        fresh |-> fresh,
        run |-> IF fresh
                THEN Min(h.run + 1, Positions(c.refids_fragments) + 1) ELSE 0,
        frags |-> IF fresh
                  THEN [h.frags EXCEPT ![c.next_refids_fragment] =
                            msg.reference_ids_resp.val.bits]
                  ELSE <<>>]

\* An NTPv5 response datagram; frag is Nothing or the REFERENCE_IDS_RESP body
V5Response(cookie, flags, stratum, root_disp, timescale, frag) ==
    [Datagram(48 + 28 + (IF frag = Nothing THEN 0
                         ELSE Pad4(4 + frag.val.nbytes)),
              5, MODE_SERVER,
              (IF frag = Nothing THEN <<>>
               ELSE <<EF("REFERENCE_IDS_RESP", 4 + frag.val.nbytes, 0,
                         frag.val.bits, "", 0, 0)>>) \o <<DraftEF>>)
     EXCEPT !.client_cookie = cookie, !.flags = flags, !.stratum = stratum,
            !.root_disp = root_disp, !.timescale = timescale,
            !.server_cookie = 3, !.receive_ts = 30, !.transmit_ts = 31]

\* An NTPv4 response datagram
V4Response(origin_ts, leap, reference_ts) ==
    [Datagram(48, 4, MODE_SERVER, <<>>)
     EXCEPT !.origin_ts = origin_ts, !.leap = leap, !.stratum = 2,
            !.reference_ts = reference_ts, !.reference_id = 16909060,
            !.receive_ts = 30, !.transmit_ts = 31]

\* The fragments delivered for the request of client c: two of the length
\* a server returns for it, one an octet longer
Fragments(c) ==
    LET n == FragmentEnd(c) - FragmentStart(c)
    IN { [nbytes |-> n, bits |-> {}],
         [nbytes |-> n, bits |-> {0, 8 * n - 1}],
         [nbytes |-> n + 1, bits |-> {8 * n}] }

\* The datagrams delivered to client c, which has sent a request
ClientInputs(c) ==
    LET q == c.last_request.val
        cookie == IF q.version = 5 THEN q.client_cookie ELSE 1
        sync == FLAG_SYNCHRONIZED
    IN { V5Response(cookie, sync, 1, 0, TIMESCALE_UTC, Just(f))
         : f \in Fragments(c) }
       \cup
       { V5Response(cookie, sync, 1, 0, TIMESCALE_UTC, Nothing),
         V5Response(cookie, sync + FLAG_INTERLEAVED, 1, 0, TIMESCALE_UTC,
                    Nothing),
         V5Response(3 - cookie, sync, 1, 0, TIMESCALE_UTC, Nothing),
         V5Response(cookie, 0, 1, 0, TIMESCALE_UTC, Nothing),
         V5Response(cookie, sync, 0, 0, TIMESCALE_UTC, Nothing),
         V5Response(cookie, sync, 1, 17000, TIMESCALE_UTC, Nothing),
         V5Response(cookie, sync, 1, 0, 1, Nothing),
         V4Response(q.transmit_ts, LEAP_NORMAL, 0),
         V4Response(q.transmit_ts, LEAP_NORMAL, NTP5_MAGIC),
         V4Response(q.receive_ts, LEAP_NORMAL, 0),
         V4Response(7, LEAP_NORMAL, 0),
         V4Response(q.transmit_ts, LEAP4_UNSYNCHRONIZED, NTP5_MAGIC),
         \* a request, not a response
         [Datagram(48, 4, MODE_CLIENT, <<>>) EXCEPT
             !.origin_ts = q.transmit_ts, !.stratum = 2] }
       \cup Malformed

InitClient ==
    /\ saved_timestamps = <<>>
    /\ timestamp_queue = <<>>
    /\ own_reference_id = {0, 4095}
    /\ server = NewServer(own_reference_id, FALSE)
    /\ \E cfg \in ClientConfigs :
          clients = [a \in {1} |-> NewClient(cfg[1], cfg[2], cfg[3])]
    /\ selection_delays = [a \in {1} |-> 0]
    /\ selected_sources = <<>>
    /\ srv_in = Nothing
    /\ srv_rx_ts = 0
    /\ srv_out = Nothing
    /\ net = Nothing
    /\ op = "init"
    /\ raised = "none"
    /\ revealed = [v4 |-> {}, v5 |-> {}]
    /\ hist = NewHist(clients[1])

\* NtpClient.send_request is called
SendRequest ==
    /\ raised = "none"
    /\ clients[1].missed_responses < MaxMissed
    /\ \E x \in RandomBits, now \in ClockAtSend :
         LET rnd == [client_cookie |-> x, transmit_ts |-> x,
                     receive_ts |-> 3 - x]
             after == SendRequestRun(clients[1], rnd, now)
         IN /\ clients' = [clients EXCEPT ![1] = after]
            /\ net' = Just(Encode(after.last_request.val, 0))
    /\ hist' = [hist EXCEPT !.sends = @ + 1, !.accepts = 0]
    /\ op' = "send_request"
    /\ UNCHANGED <<saved_timestamps, timestamp_queue, server,
                   own_reference_id, selection_delays, selected_sources,
                   srv_in, srv_rx_ts, srv_out, raised, revealed>>

\* NtpClient.receive_response is called: the client socket is readable
ReceiveResponse ==
    /\ raised = "none"
    /\ clients[1].last_request # Nothing
    /\ \E d \in {Just(x) : x \in ClientInputs(clients[1])} \cup {Nothing},
          now \in ClockAtReceive :
       \E r \in { ReceiveResponseRun(clients[1], d, now) } :
         /\ clients' = [clients EXCEPT ![1] = r.client]
         /\ raised' = r.raised
         /\ net' = d
         /\ hist' = [(IF d # Nothing /\ Decode(d.val).ok
                      THEN HistAfterReceive(hist, clients[1], d, r.client)
                      ELSE [hist EXCEPT !.fresh = FALSE, !.run = 0,
                                        !.frags = <<>>])
                     EXCEPT !.accepts = IF r.accepted THEN Min(@ + 1, 2)
                                        ELSE @]
    /\ op' = "receive_response"
    /\ UNCHANGED <<saved_timestamps, timestamp_queue, server,
                   own_reference_id, selection_delays, selected_sources,
                   srv_in, srv_rx_ts, srv_out, revealed>>

NextClient == SendRequest \/ ReceiveResponse

SpecClient == InitClient /\ [][NextClient]_vars

-----------------------------------------------------------------------------
(* One client and the fragments of the reference IDs it collects *)

\* receive_response got as far as line 406: an expected NTPv4 response
\* whose origin_ts pairs with the last request
ClearedByV4(c, d) ==
    /\ d # Nothing
    /\ Decode(d.val).ok
    /\ c.missed_responses # 0
    /\ Decode(d.val).msg.mode = MODE_SERVER
    /\ Decode(d.val).msg.version = 4
    /\ Pairing(c, Decode(d.val).msg) # "bogus"

\* receive_response got as far as line 423 with an NTPv5 response
MergedOrClearedByV5(c, d) ==
    /\ d # Nothing
    /\ Decode(d.val).ok
    /\ c.missed_responses # 0
    /\ Decode(d.val).msg.mode = MODE_SERVER
    /\ Decode(d.val).msg.version = 5
    /\ Pairing(c, Decode(d.val).msg) # "bogus"
    /\ ~Unsynchronized(Decode(d.val).msg)
    /\ Decode(d.val).msg.timescale = c.timescale

\* The fragment positions merged into the accumulator since it was last
\* set to 0
FilledAfter(filled, c, d) ==
    IF ClearedByV4(c, d) THEN {}
    ELSE IF MergedOrClearedByV5(c, d)
    THEN IF Decode(d.val).msg.reference_ids_resp # Nothing
         THEN filled \cup {c.next_refids_fragment}
         ELSE {}
    ELSE filled

RefidsConfigs == { <<0, FALSE, 2>>, <<5, FALSE, 2>>, <<5, FALSE, 3>> }

\* The responses delivered to client c: NTPv5 ones with a fragment of the
\* requested length, without a fragment and unsynchronized, and NTPv4 ones
\* with and without the NTPv5 magic
RefidsInputs(c) ==
    LET q == c.last_request.val
        cookie == IF q.version = 5 THEN q.client_cookie ELSE 1
        n == FragmentEnd(c) - FragmentStart(c)
    IN { V5Response(cookie, FLAG_SYNCHRONIZED, 1, 0, TIMESCALE_UTC,
                    Just([nbytes |-> n, bits |-> {0, 8 * n - 1}])),
         V5Response(cookie, FLAG_SYNCHRONIZED, 1, 0, TIMESCALE_UTC, Nothing),
         V5Response(cookie, 0, 1, 0, TIMESCALE_UTC,
                    Just([nbytes |-> n, bits |-> {1}])),
         V4Response(q.transmit_ts, LEAP_NORMAL, 0),
         V4Response(q.transmit_ts, LEAP_NORMAL, NTP5_MAGIC) }

InitRefids ==
    /\ saved_timestamps = <<>>
    /\ timestamp_queue = <<>>
    /\ own_reference_id = {0, 4095}
    /\ server = NewServer(own_reference_id, FALSE)
    /\ \E cfg \in RefidsConfigs :
          clients = [a \in {1} |-> NewClient(cfg[1], cfg[2], cfg[3])]
    /\ selection_delays = [a \in {1} |-> 0]
    /\ selected_sources = <<>>
    /\ srv_in = Nothing
    /\ srv_rx_ts = 0
    /\ srv_out = Nothing
    /\ net = Nothing
    /\ op = "init"
    /\ raised = "none"
    /\ revealed = [v4 |-> {}, v5 |-> {}]
    /\ hist = [filled |-> {}]

\* NtpClient.send_request is called
RefidsSend ==
    /\ raised = "none"
    /\ clients[1].missed_responses < MaxMissed
    /\ \E x \in RandomBits, now \in ClockAtSend :
         LET rnd == [client_cookie |-> x, transmit_ts |-> x,
                     receive_ts |-> 3 - x]
             after == SendRequestRun(clients[1], rnd, now)
         IN /\ clients' = [clients EXCEPT ![1] = after]
            /\ net' = Just(Encode(after.last_request.val, 0))
    /\ op' = "send_request"
    /\ UNCHANGED <<saved_timestamps, timestamp_queue, server,
                   own_reference_id, selection_delays, selected_sources,
                   srv_in, srv_rx_ts, srv_out, raised, revealed, hist>>

\* NtpClient.receive_response is called
RefidsReceive ==
    /\ raised = "none"
    /\ clients[1].last_request # Nothing
    /\ \E d \in {Just(x) : x \in RefidsInputs(clients[1])},
          now \in ClockAtReceive :
       \E r \in { ReceiveResponseRun(clients[1], d, now) } :
         /\ clients' = [clients EXCEPT ![1] = r.client]
         /\ raised' = r.raised
         /\ net' = d
         /\ hist' = [filled |-> FilledAfter(hist.filled, clients[1], d)]
    /\ op' = "receive_response"
    /\ UNCHANGED <<saved_timestamps, timestamp_queue, server,
                   own_reference_id, selection_delays, selected_sources,
                   srv_in, srv_rx_ts, srv_out, revealed>>

NextRefids == RefidsSend \/ RefidsReceive

SpecRefids == InitRefids /\ [][NextRefids]_vars

-----------------------------------------------------------------------------
(* One exchange with timestamps on both sides of the wrap of the field *)

\* The number of values of a timestamp field: 65536 stands for 2**64 of the
\* "Q" fields, as TicksPerSecond stands for 2**32
TimestampWrap == 65536

\* Timestamps just above 0 and just below the wrap
Timestamps ==
    {0, 2, 5, TimestampWrap - 6, TimestampWrap - 3, TimestampWrap - 1}

InitSample ==
    /\ saved_timestamps = <<>>
    /\ timestamp_queue = <<>>
    /\ own_reference_id = {0, 4095}
    /\ server = NewServer(own_reference_id, FALSE)
    /\ clients = [a \in {1} |-> NewClient(4, FALSE, 1)]
    /\ selection_delays = [a \in {1} |-> 0]
    /\ selected_sources = <<>>
    /\ srv_in = Nothing
    /\ srv_rx_ts = 0
    /\ srv_out = Nothing
    /\ net = Nothing
    /\ op = "init"
    /\ raised = "none"
    /\ revealed = [v4 |-> {}, v5 |-> {}]
    /\ hist = [T |-> <<>>]

\* NtpClient.send_request at local time T1
SampleSend ==
    /\ op = "init"
    /\ \E x \in RandomBits, T1 \in Timestamps :
         LET rnd == [client_cookie |-> x, transmit_ts |-> x,
                     receive_ts |-> 3 - x]
             after == SendRequestRun(clients[1], rnd, T1)
         IN /\ clients' = [clients EXCEPT ![1] = after]
            /\ net' = Just(Encode(after.last_request.val, 0))
            /\ hist' = [T |-> <<T1>>]
    /\ op' = "send_request"
    /\ UNCHANGED <<saved_timestamps, timestamp_queue, server,
                   own_reference_id, selection_delays, selected_sources,
                   srv_in, srv_rx_ts, srv_out, raised, revealed>>

\* NtpClient.receive_response at local time T4 of the response of a server
\* that received the request at T2 and answered at T3
SampleReceive ==
    /\ op = "send_request"
    /\ \E T2 \in Timestamps, T3 \in Timestamps, T4 \in Timestamps :
       \E d \in { [V4Response(clients[1].last_request.val.transmit_ts,
                               LEAP_NORMAL, 0)
                    EXCEPT !.receive_ts = T2, !.transmit_ts = T3] } :
       \E r \in { ReceiveResponseRun(clients[1], Just(d), T4) } :
         /\ clients' = [clients EXCEPT ![1] = r.client]
         /\ raised' = r.raised
         /\ net' = Just(d)
         /\ hist' = [T |-> hist.T \o <<T2, T3, T4>>]
    /\ op' = "receive_response"
    /\ UNCHANGED <<saved_timestamps, timestamp_queue, server,
                   own_reference_id, selection_delays, selected_sources,
                   srv_in, srv_rx_ts, srv_out, revealed>>

NextSample == SampleSend \/ SampleReceive

SpecSample == InitSample /\ [][NextSample]_vars

-----------------------------------------------------------------------------
(* One client in interleaved mode, with a local clock that advances *)

\* The responses a server returns to the request of client c: a basic one,
\* and an interleaved one if the request quotes a previous response
InterleaveInputs(c) ==
    LET q == c.last_request.val
    IN IF q.version = 5
       THEN { V5Response(q.client_cookie, FLAG_SYNCHRONIZED, 1, 0,
                         TIMESCALE_UTC, Nothing) }
            \cup (IF q.server_cookie # 0
                  THEN { V5Response(q.client_cookie,
                                    FLAG_SYNCHRONIZED + FLAG_INTERLEAVED,
                                    1, 0, TIMESCALE_UTC, Nothing) }
                  ELSE {})
       ELSE { V4Response(q.transmit_ts, LEAP_NORMAL, 0) }
            \cup (IF q.origin_ts # 0
                  THEN { V4Response(q.receive_ts, LEAP_NORMAL, 0) }
                  ELSE {})

\* The history: the local clock, and the local transmit and receive times
\* of the exchange whose response is prev_response
InitInterleave ==
    /\ saved_timestamps = <<>>
    /\ timestamp_queue = <<>>
    /\ own_reference_id = {0, 4095}
    /\ server = NewServer(own_reference_id, FALSE)
    /\ \E version \in {4, 5} :
          clients = [a \in {1} |-> NewClient(version, TRUE, 1)]
    /\ selection_delays = [a \in {1} |-> 0]
    /\ selected_sources = <<>>
    /\ srv_in = Nothing
    /\ srv_rx_ts = 0
    /\ srv_out = Nothing
    /\ net = Nothing
    /\ op = "init"
    /\ raised = "none"
    /\ revealed = [v4 |-> {}, v5 |-> {}]
    /\ hist = [clock |-> 1, answered_tx |-> NoneInt, answered_rx |-> NoneInt,
               interleaved |-> FALSE]

\* NtpClient.send_request is called
InterleaveSend ==
    /\ raised = "none"
    /\ hist.clock < MaxTicks
    /\ \E x \in RandomBits :
         LET rnd == [client_cookie |-> x, transmit_ts |-> x,
                     receive_ts |-> 3 - x]
             after == SendRequestRun(clients[1], rnd, hist.clock)
         IN /\ clients' = [clients EXCEPT ![1] = after]
            /\ net' = Just(Encode(after.last_request.val, 0))
    /\ hist' = [hist EXCEPT !.clock = @ + 1, !.interleaved = FALSE]
    /\ op' = "send_request"
    /\ UNCHANGED <<saved_timestamps, timestamp_queue, server,
                   own_reference_id, selection_delays, selected_sources,
                   srv_in, srv_rx_ts, srv_out, raised, revealed>>

\* NtpClient.receive_response is called
InterleaveReceive ==
    /\ raised = "none"
    /\ hist.clock < MaxTicks
    /\ clients[1].last_request # Nothing
    /\ \E d \in InterleaveInputs(clients[1]) :
       \E r \in { ReceiveResponseRun(clients[1], Just(d), hist.clock) } :
         /\ clients' = [clients EXCEPT ![1] = r.client]
         /\ raised' = r.raised
         /\ net' = Just(d)
         /\ hist' = [clock |-> hist.clock + 1,
                     answered_tx |-> IF r.accepted
                                     THEN clients[1].last_transmit_ts
                                     ELSE hist.answered_tx,
                     answered_rx |-> IF r.accepted THEN hist.clock
                                     ELSE hist.answered_rx,
                     interleaved |->
                        /\ r.accepted
                        /\ Pairing(clients[1], Decode(d).msg) = "interleaved"]
    /\ op' = "receive_response"
    /\ UNCHANGED <<saved_timestamps, timestamp_queue, server,
                   own_reference_id, selection_delays, selected_sources,
                   srv_in, srv_rx_ts, srv_out, revealed>>

NextInterleave == InterleaveSend \/ InterleaveReceive

SpecInterleave == InitInterleave /\ [][NextInterleave]_vars

-----------------------------------------------------------------------------
(* Source selection *)

\* The options of main: --max-distance (in ms) and --no-refid
max_distance == 1000
no_refid_loop == FALSE

\* The upstream servers of the node, in the order of the command line, and
\* the local addresses of the sockets connected to them
Addresses == {1, 2}
own_addresses == {2130706433}

\* int(ipaddress.IPv4Address(host)) of upstream server a
AddressInt(a) == 167772160 + a

\* select_sources without the test of own_reference_id against the client's
\* reference_ids
CategoryByAddressOnly(c, delay, own) ==
    IF c.sample = Nothing THEN "missing sample"
    ELSE IF c.sample.val.root_delay + 2 * c.sample.val.root_disp
               > 2 * max_distance
    THEN "distance too large"
    ELSE IF c.version = 5 /\ ~c.complete_refids
    THEN "waiting for complete refids"
    ELSE IF /\ ~no_refid_loop
            /\ c.reference_id # NoneInt
            /\ c.reference_id \in own_addresses
    THEN "synchronization loop"
    ELSE IF delay > 0 THEN "recently in loop"
    ELSE "selected"

\* The branch select_sources takes for a client whose selection delay,
\* already decremented, is delay
Category(c, delay, own) ==
    IF c.sample = Nothing THEN "missing sample"
    ELSE IF c.sample.val.root_delay + 2 * c.sample.val.root_disp
               > 2 * max_distance
    THEN "distance too large"
    ELSE IF c.version = 5 /\ ~c.complete_refids
    THEN "waiting for complete refids"
    ELSE IF \/ own \cap c.reference_ids = own
            \/ /\ ~no_refid_loop
               /\ c.reference_id # NoneInt
               /\ c.reference_id \in own_addresses
    THEN "synchronization loop"
    ELSE IF delay > 0 THEN "recently in loop"
    ELSE "selected"

\* The sort key of a sample, doubled, in ms:
\* root_delay / 2 + root_disp + 0.001 * stratum
SortKey(sample) ==
    sample.root_delay + 2 * sample.root_disp + 2 * sample.stratum

\* list.sort(key=...): stable, ascending
RECURSIVE Sorted(_)
Sorted(seq) ==
    IF Len(seq) <= 1 THEN seq
    ELSE LET rest == Sorted(Tail(seq))
             x == Head(seq)
             before == {i \in 1..Len(rest) :
                           SortKey(rest[i].sample) < SortKey(x.sample)}
             n == Cardinality(before)
         IN SubSeq(rest, 1, n) \o <<x>> \o SubSeq(rest, n + 1, Len(rest))

\* The clients selected, in the order of self.clients
RECURSIVE Candidates(_, _, _, _)
Candidates(cl, delays, own, a) ==
    IF a \notin DOMAIN cl THEN <<>>
    ELSE (IF Category(cl[a], delays[a], own) = "selected"
          THEN <<[address |-> a, sample |-> cl[a].sample.val,
                  reference_ids |-> cl[a].reference_ids]>>
          ELSE <<>>) \o Candidates(cl, delays, own, a + 1)

\* The client at the end of the loop body of select_sources, whichever
\* branch (category) was taken for it: client.sample = None
InspectedIfSelected(c, category) ==
    IF category = "selected" THEN [c EXCEPT !.sample = Nothing] ELSE c

Inspected(c, category) == [c EXCEPT !.sample = Nothing]

\* NtpNode.select_sources; rnd[a] is what random.randint(1, 4) returns for
\* client a, now what read_clock returns
SelectSourcesRun(cl, delays, srv, own, rnd, now) ==
    LET dec == [a \in DOMAIN delays |->
                   IF delays[a] > 0 THEN delays[a] - 1 ELSE delays[a]]
        sorted == Sorted(Candidates(cl, dec, own, 1))
        \* the loop variable of the last iteration over selected_sources
        sample == sorted[Len(sorted)].sample
    IN [selection_delays |->
            [a \in DOMAIN delays |->
                IF Category(cl[a], dec[a], own) = "synchronization loop"
                THEN rnd[a] ELSE dec[a]],
        clients |-> [a \in DOMAIN cl |->
                        Inspected(cl[a], Category(cl[a], dec[a], own))],
        selected_sources |-> [i \in 1..Len(sorted) |-> sorted[i].address],
        server |->
            IF Len(sorted) > 0
            THEN SetReference(srv, own, sample.stratum + 1,
                     AddressInt(sorted[1].address),
                     UNION {sorted[i].reference_ids : i \in 1..Len(sorted)},
                     now, sample.root_delay, sample.root_disp)
            ELSE srv]

\* (version option, interleaved, refids_fragments) of the clients of a node
NodeConfigs == { <<5, FALSE, 1>>, <<4, FALSE, 1>> }

\* The responses upstream server a returns to the request of client c:
\* server 1 is at stratum 1 or 2 and may be synchronized to this node,
\* server 2 is at stratum 3
NodeInputs(a, c) ==
    LET q == c.last_request.val
        whole(bits) == Just([nbytes |-> REFERENCE_IDS_OCTETS, bits |-> bits])
        v5(stratum, root_disp, frag) ==
            V5Response(q.client_cookie, FLAG_SYNCHRONIZED, stratum, root_disp,
                       TIMESCALE_UTC, frag)
        v4(stratum, root_disp, reference_id) ==
            [V4Response(q.transmit_ts, LEAP_NORMAL, 0) EXCEPT
                !.stratum = stratum, !.root_disp = root_disp,
                !.reference_id = reference_id]
    IN IF c.version = 5
       THEN IF a = 1
            THEN { v5(2, 0, whole({0, 5, 4095})), v5(1, 0, whole({5})),
                   v5(1, 400, whole({5})),
                   v5(1, 2000, whole({0, 4095})), v5(1, 0, Nothing) }
            ELSE { v5(3, 100, whole({7, 4095})) }
       ELSE IF a = 1
            THEN { v4(2, 0, 2130706433), v4(1, 0, 16909060),
                   v4(1, 400, 16909060), v4(1, 2000, 2130706433) }
            ELSE { v4(3, 100, 16909060) }

\* What select_sources saw (hist.included, hist.loop; hist.detected are the
\* clients it found in a loop, hist.before those of the cycle before): the
\* sample of every client it selected, and the
\* clients that had a sample within max_distance, complete refids if at
\* version 5, and every bit of own_reference_id in their reference_ids
Seen(cl, delays, own) ==
    [included |->
        LET sel == {a \in DOMAIN cl :
                      Category(cl[a], IF delays[a] > 0 THEN delays[a] - 1
                                      ELSE 0, own) = "selected"}
        IN [a \in sel |-> cl[a].sample.val],
     loop |->
        {a \in DOMAIN cl :
            /\ cl[a].sample # Nothing
            /\ cl[a].sample.val.root_delay + 2 * cl[a].sample.val.root_disp
                  <= 2 * max_distance
            /\ cl[a].version = 5 => cl[a].complete_refids
            /\ own \subseteq cl[a].reference_ids}]

\* The clients for which select_sources takes the "synchronization loop"
\* branch
Detected(cl, delays, own) ==
    {a \in DOMAIN cl :
        Category(cl[a], IF delays[a] > 0 THEN delays[a] - 1 ELSE 0, own)
            = "synchronization loop"}

InitNode ==
    /\ saved_timestamps = <<>>
    /\ timestamp_queue = <<>>
    /\ own_reference_id = {0, 4095}
    /\ server = NewServer(own_reference_id, FALSE)
    /\ \E cfg \in NodeConfigs :
          clients = [a \in Addresses |-> NewClient(cfg[1], cfg[2], cfg[3])]
    /\ selection_delays = [a \in Addresses |-> 0]
    /\ selected_sources = <<>>
    /\ srv_in = Nothing
    /\ srv_rx_ts = 0
    /\ srv_out = Nothing
    /\ net = Nothing
    /\ op = "init"
    /\ raised = "none"
    /\ revealed = [v4 |-> {}, v5 |-> {}]
    /\ hist = [included |-> <<>>, loop |-> {}, detected |-> {},
               before |-> {}]

\* process_events when the poll timer expired: select_sources, then
\* send_request of every client
Poll ==
    /\ raised = "none"
    /\ \A a \in Addresses : clients[a].missed_responses < MaxPolls
    /\ \E rnd \in [Addresses -> 1..4], now \in ClockAtSend, x \in RandomBits :
       \E r \in { SelectSourcesRun(clients, selection_delays, server,
                                   own_reference_id, rnd, now) } :
         /\ selection_delays' = r.selection_delays
         /\ selected_sources' = r.selected_sources
         /\ server' = r.server
         /\ clients' =
              [a \in Addresses |->
                  SendRequestRun(r.clients[a],
                                 [client_cookie |-> x, transmit_ts |-> x,
                                  receive_ts |-> 3 - x], now)]
    /\ \E seen \in { Seen(clients, selection_delays, own_reference_id) } :
         hist' = [included |-> seen.included, loop |-> seen.loop,
                  detected |-> Detected(clients, selection_delays,
                                        own_reference_id),
                  before |-> hist.detected]
    /\ op' = "poll"
    /\ UNCHANGED <<saved_timestamps, timestamp_queue, own_reference_id,
                   srv_in, srv_rx_ts, srv_out, net, raised, revealed>>

\* process_events when the socket of client a is readable
NodeReceive ==
    /\ raised = "none"
    /\ \E a \in Addresses :
         /\ clients[a].last_request # Nothing
         /\ \E d \in NodeInputs(a, clients[a]), now \in ClockAtReceive :
            \E r \in { ReceiveResponseRun(clients[a], Just(d), now) } :
              /\ clients' = [clients EXCEPT ![a] = r.client]
              /\ raised' = r.raised
              /\ net' = Just(d)
    /\ hist' = [included |-> <<>>, loop |-> {}, detected |-> hist.detected,
                before |-> {}]
    /\ op' = "receive_response"
    /\ UNCHANGED <<saved_timestamps, timestamp_queue, server,
                   own_reference_id, selection_delays, selected_sources,
                   srv_in, srv_rx_ts, srv_out, revealed>>

NextNode == Poll \/ NodeReceive

SpecNode == InitNode /\ [][NextNode]_vars

-----------------------------------------------------------------------------
(* The reference of the server, set by any caller *)

InitReference ==
    /\ saved_timestamps = <<>>
    /\ timestamp_queue = <<>>
    /\ own_reference_id \in OwnIds
    /\ \E local_reference \in BOOLEAN :
          server = NewServer(own_reference_id, local_reference)
    /\ clients = <<>>
    /\ selection_delays = <<>>
    /\ selected_sources = <<>>
    /\ srv_in = Nothing
    /\ srv_rx_ts = 0
    /\ srv_out = Nothing
    /\ net = Nothing
    /\ op = "init"
    /\ raised = "none"
    /\ revealed = [v4 |-> {}, v5 |-> {}]
    /\ hist = [own |-> own_reference_id]

\* NtpServer.set_reference is called
SetReferenceCall ==
    /\ \E stratum \in {0, 1, 2, 16},
          reference_id \in {0, AddressInt(1)},
          reference_ids \in {{}, {5}, {0, 7}, {0, 5, 1030, 2047, 4095}},
          reference_ts \in {0, 20},
          root_delay \in {0, 19},
          root_disp \in {0, 100} :
         server' = SetReference(server, own_reference_id, stratum,
                                reference_id, reference_ids, reference_ts,
                                root_delay, root_disp)
    /\ op' = "set_reference"
    /\ UNCHANGED <<saved_timestamps, timestamp_queue, own_reference_id,
                   clients, selection_delays, selected_sources, srv_in,
                   srv_rx_ts, srv_out, net, raised, revealed, hist>>

NextReference == SetReferenceCall

SpecReference == InitReference /\ [][NextReference]_vars

-----------------------------------------------------------------------------
(* Messages through encode and decode *)

\* The fields of the other version of the protocol as decode returns them
OtherVersionFields(version) ==
    IF version = 5
    THEN [leap5 |-> LEAP_NORMAL, timescale |-> TIMESCALE_UTC, era |-> 0,
          flags |-> FLAG_SYNCHRONIZED, server_cookie |-> 7,
          client_cookie |-> 8, leap4 |-> NoneInt, reference_id |-> NoneInt,
          reference_ts |-> NoneInt, origin_ts |-> NoneInt]
    ELSE [leap5 |-> NoneInt, timescale |-> TIMESCALE_UTC, era |-> NoneInt,
          flags |-> NoneInt, server_cookie |-> NoneInt,
          client_cookie |-> NoneInt, leap4 |-> LEAP_NORMAL,
          reference_id |-> 1, reference_ts |-> 2, origin_ts |-> 3]

\* The fields as make_request and make_response fill them: leap4 also in an
\* NTPv5 message, leap5 and no timescale in an NTPv4 message
BuiltFields(version) ==
    IF version = 5
    THEN [OtherVersionFields(5) EXCEPT !.leap4 = LEAP_NORMAL]
    ELSE [OtherVersionFields(4) EXCEPT !.leap5 = LEAP_NORMAL,
                                       !.timescale = NoneInt]

TIMESCALE_TAI == 1

\* NtpMessage values: both versions and modes, strata up to 16, root delays
\* below and above the saturation of the wire format, and subsets of the
\* extension fields
Messages ==
    { LET f == IF built THEN BuiltFields(version)
                        ELSE OtherVersionFields(version) IN
      [version |-> version, mode |-> mode, stratum |-> stratum, poll |-> 2,
       precision |-> -20, root_delay |-> root_delay, root_disp |-> 250,
       receive_ts |-> 5, transmit_ts |-> 6,
       leap5 |-> f.leap5, timescale |-> f.timescale, era |-> f.era,
       flags |-> f.flags, server_cookie |-> f.server_cookie,
       client_cookie |-> f.client_cookie, leap4 |-> f.leap4,
       reference_id |-> f.reference_id, reference_ts |-> f.reference_ts,
       origin_ts |-> f.origin_ts,
       server_info |-> server_info, reference_ids_req |-> reference_ids_req,
       reference_ids_resp |-> reference_ids_resp,
       reference_ts_ |-> reference_ts_, secondary_rx_ts |-> secondary_rx_ts,
       draft_id |-> draft_id] :
      version \in {4, 5}, mode \in {MODE_CLIENT, MODE_SERVER},
      stratum \in {0, 1, 15, 16}, root_delay \in {0, 500, 20000},
      built \in BOOLEAN,
      server_info \in {Nothing, Just(24)},
      reference_ids_req \in {Nothing, Just(<<0, 128>>), Just(<<4, 1>>)},
      reference_ids_resp \in {Nothing, Just([nbytes |-> 2, bits |-> {1, 9}])},
      reference_ts_ \in {Nothing, Just(9)},
      secondary_rx_ts \in
          {Nothing, Just(<<>>),
           Just([t \in {TIMESCALE_UTC} |-> <<0, 5>>]),
           Just([t \in {TIMESCALE_TAI} |-> <<0, 5>>]),
           Just([t \in {TIMESCALE_UTC, TIMESCALE_TAI} |-> <<0, 5 + t>>])},
      draft_id \in {Nothing, Just(OUR_DRAFT_ID)} }

InitCodec ==
    /\ saved_timestamps = <<>>
    /\ timestamp_queue = <<>>
    /\ own_reference_id = 0
    /\ server = NewServer(0, FALSE)
    /\ clients = <<>>
    /\ selection_delays = <<>>
    /\ selected_sources = <<>>
    /\ srv_in = Nothing
    /\ srv_rx_ts = 0
    /\ srv_out = Nothing
    /\ net = Nothing
    /\ op = "init"
    /\ raised = "none"
    /\ revealed = [v4 |-> {}, v5 |-> {}]
    /\ \E N \in Messages : hist = [message |-> N]

\* NtpMessage.decode(N.encode()) for the message N
RoundTrip ==
    /\ op = "init"
    /\ net' = Just(Encode(hist.message, 0))
    /\ hist' = [message |-> hist.message,
                decoded |-> Decode(Encode(hist.message, 0))]
    /\ op' = "round_trip"
    /\ UNCHANGED <<saved_timestamps, timestamp_queue, server,
                   own_reference_id, clients, selection_delays,
                   selected_sources, srv_in, srv_rx_ts, srv_out, raised,
                   revealed>>

NextCodec == RoundTrip

SpecCodec == InitCodec /\ [][NextCodec]_vars

-----------------------------------------------------------------------------
(* A client of one node polling the server of another *)

\* What read_clock returns in the server when it receives its n-th request
ServerClock(n) == 200 + 100 * n

\* The references the polled server may have got from select_sources
LinkStrata == {0, 1, 2, 15, 16}
LinkRootDisps == {0, 17000}

InitLink ==
    /\ saved_timestamps = <<>>
    /\ timestamp_queue = <<>>
    /\ own_reference_id = {0, 4095}
    /\ \E stratum \in LinkStrata, root_disp \in LinkRootDisps :
          server = SetReference(NewServer(own_reference_id, FALSE),
                                own_reference_id, stratum, AddressInt(2), {7},
                                0, 0, root_disp)
    /\ \E interleaved \in BOOLEAN :
          clients = [a \in {1} |-> NewClient(0, interleaved, 4)]
    /\ selection_delays = [a \in {1} |-> 0]
    /\ selected_sources = <<>>
    /\ srv_in = Nothing
    /\ srv_rx_ts = 0
    /\ srv_out = Nothing
    /\ net = [to_server |-> <<>>, to_client |-> <<>>]
    /\ op = "init"
    /\ raised = "none"
    /\ revealed = [v4 |-> {}, v5 |-> {}]
    /\ hist = [requests |-> <<>>, answers |-> <<>>, delivered |-> 0,
               prompt |-> TRUE]

\* The client sends a request. It is prompt when every request before
\* it was answered and the answer was delivered.
LinkSend ==
    /\ raised = "none"
    /\ Len(hist.requests) < MaxRequests
    /\ \E x \in RandomBits, now \in ClockAtSend :
         LET rnd == [client_cookie |-> x, transmit_ts |-> x,
                     receive_ts |-> 3 - x]
             after == SendRequestRun(clients[1], rnd, now)
             d == Encode(after.last_request.val, 0)
         IN /\ clients' = [clients EXCEPT ![1] = after]
            /\ net' = [net EXCEPT !.to_server = Append(@, d)]
            /\ hist' = [hist EXCEPT
                          !.requests = Append(@, Decode(d).msg),
                          !.prompt = /\ @
                                     /\ net.to_server = <<>>
                                     /\ net.to_client = <<>>
                                     /\ Len(hist.answers) = Len(hist.requests)]
    /\ op' = "send_request"
    /\ UNCHANGED <<saved_timestamps, timestamp_queue, server,
                   own_reference_id, selection_delays, selected_sources,
                   srv_in, srv_rx_ts, srv_out, raised, revealed>>

\* The server receives the oldest request in flight
LinkServe ==
    /\ raised = "none"
    /\ net.to_server # <<>>
    /\ \E c1 \in { ServerClock(Len(hist.answers)) } :
       \E r \in { ReceiveRequestRun(server, saved_timestamps, timestamp_queue,
                      Head(net.to_server), c1, c1 + Elapsed, c1 + 2 * Elapsed,
                      TRUE) } :
         /\ saved_timestamps' = r.saved
         /\ timestamp_queue' = r.queue
         /\ srv_in' = Just(Head(net.to_server))
         /\ srv_rx_ts' = r.receive_ts
         /\ srv_out' = r.out
         /\ raised' = r.raised
         /\ net' = [to_server |-> Tail(net.to_server),
                    to_client |-> IF r.out = Nothing THEN net.to_client
                                  ELSE Append(net.to_client, r.out.val)]
         /\ hist' = IF r.out = Nothing THEN hist
                    ELSE [hist EXCEPT
                            !.answers = Append(@, Decode(r.out.val).msg)]
    /\ op' = "receive_request"
    /\ UNCHANGED <<server, own_reference_id, clients, selection_delays,
                   selected_sources, revealed>>

\* The client receives the oldest response in flight
LinkDeliver ==
    /\ raised = "none"
    /\ net.to_client # <<>>
    /\ \E now \in ClockAtReceive :
       \E r \in { ReceiveResponseRun(clients[1], Just(Head(net.to_client)),
                                     now) } :
         /\ clients' = [clients EXCEPT ![1] = r.client]
         /\ raised' = r.raised
    /\ net' = [net EXCEPT !.to_client = Tail(@)]
    /\ hist' = [hist EXCEPT !.delivered = @ + 1]
    /\ op' = "receive_response"
    /\ UNCHANGED <<saved_timestamps, timestamp_queue, server,
                   own_reference_id, selection_delays, selected_sources,
                   srv_in, srv_rx_ts, srv_out, revealed>>

NextLink == LinkSend \/ LinkServe \/ LinkDeliver

SpecLink == InitLink /\ [][NextLink]_vars

-----------------------------------------------------------------------------
(* Datagrams of any content, at the server socket or at a client socket *)

WRONG_DRAFT_ID == "draft-ietf-ntp-ntpv5-01+"

\* Datagrams of a wrong length, of a wrong version, and NTPv5 ones without
\* the draft ID of this implementation
Payloads ==
    { Datagram(len, v, MODE_CLIENT, <<>>) : len \in {44, 47, 49}, v \in {4, 5} }
    \cup
    { Datagram(48, v, m, <<>>) : v \in {3, 5, 6}, m \in {MODE_CLIENT, MODE_SERVER} }
    \cup
    { Datagram(48 + 28, 5, MODE_SERVER,
               <<EF("DRAFT_ID", 28, 0, {}, text, 0, 0)>>)
      : text \in {WRONG_DRAFT_ID, NON_ASCII} }
    \cup
    { Datagram(48 + 8 + 24, 5, MODE_CLIENT,
               <<EF("SERVER_INFO", 8, 0, {}, "", 0, 0),
                 EF("DRAFT_ID", 24, 0, {}, "draft-ietf-ntp-ntpv5", 0, 0)>>),
      Datagram(48 + 4, 5, MODE_CLIENT,
               <<EF("REFERENCE_IDS_REQ", 4, 0, {}, "", 0, 0)>>) }

\* The history says which socket the datagrams arrive at
InitWire ==
    /\ saved_timestamps = <<>>
    /\ timestamp_queue = <<>>
    /\ own_reference_id = {0, 4095}
    /\ server = NewServer(own_reference_id, TRUE)
    /\ clients = [a \in {1} |-> NewClient(0, TRUE, 4)]
    /\ selection_delays = [a \in {1} |-> 0]
    /\ selected_sources = <<>>
    /\ srv_in = Nothing
    /\ srv_rx_ts = 0
    /\ srv_out = Nothing
    /\ net = Nothing
    /\ op = "init"
    /\ raised = "none"
    /\ revealed = [v4 |-> {}, v5 |-> {}]
    /\ hist \in {[side |-> "server"], [side |-> "client"]}

WireServe ==
    /\ hist.side = "server"
    /\ ServeFrom(V4Requests \cup Payloads)
    /\ UNCHANGED hist

WireSend ==
    /\ hist.side = "client"
    /\ raised = "none"
    /\ clients[1].missed_responses < MaxPolls
    /\ \E x \in RandomBits, now \in ClockAtSend :
         clients' = [clients EXCEPT ![1] =
                        SendRequestRun(@, [client_cookie |-> x,
                                           transmit_ts |-> x,
                                           receive_ts |-> 3 - x], now)]
    /\ op' = "send_request"
    /\ UNCHANGED <<saved_timestamps, timestamp_queue, server,
                   own_reference_id, selection_delays, selected_sources,
                   srv_in, srv_rx_ts, srv_out, net, raised, revealed, hist>>

WireDeliver ==
    /\ hist.side = "client"
    /\ raised = "none"
    /\ \E d \in Payloads \cup (IF clients[1].last_request = Nothing THEN {}
                               ELSE ClientInputs(clients[1])),
          now \in ClockAtReceive :
       \E r \in { ReceiveResponseRun(clients[1], Just(d), now) } :
         /\ clients' = [clients EXCEPT ![1] = r.client]
         /\ raised' = r.raised
         /\ net' = Just(d)
    /\ op' = "receive_response"
    /\ UNCHANGED <<saved_timestamps, timestamp_queue, server,
                   own_reference_id, selection_delays, selected_sources,
                   srv_in, srv_rx_ts, srv_out, revealed, hist>>

NextWire == WireServe \/ WireSend \/ WireDeliver

SpecWire == InitWire /\ [][NextWire]_vars

-----------------------------------------------------------------------------
(* Claims about the server's cache and responses *)

Sent == op = "receive_request" /\ srv_out # Nothing

\* C1 as stated: the map and the queue always hold the same number of
\* entries, and never more than max_timestamps.
C1_SameCardinality ==
    /\ Cardinality(DOMAIN saved_timestamps) = Len(timestamp_queue)
    /\ Len(timestamp_queue) <= max_timestamps

\* C1 amended: the map never holds more entries than the queue, and the
\* queue never more than max_timestamps (an NTPv4 interleaved request removes
\* its entry from the map and leaves the key in the queue).
C1_CacheBounded ==
    /\ Cardinality(DOMAIN saved_timestamps) <= Len(timestamp_queue)
    /\ Len(timestamp_queue) <= max_timestamps

\* the queue is full, an entry was consumed, and another request was answered
C1_Witness ==
    /\ Sent
    /\ Len(timestamp_queue) = max_timestamps
    /\ Cardinality(DOMAIN saved_timestamps) < max_timestamps
    /\ srv_rx_ts \in DOMAIN saved_timestamps

\* C2: a response that is sent is no longer than the request datagram, and
\* when no response is sent (in particular when it is suppressed as too
\* long) no timestamp pair is saved under the request's receive_ts.
C2_NoAmplification ==
    op = "receive_request" =>
        /\ srv_out # Nothing => srv_out.val.len <= srv_in.val.len
        /\ srv_out = Nothing => srv_rx_ts \notin DOMAIN saved_timestamps

\* an NTPv5 response shorter than the request was padded to its length
C2_Witness ==
    /\ Sent
    /\ srv_out.val.version = 5
    /\ srv_out.val.len = srv_in.val.len
    /\ srv_out.val.efs[Len(srv_out.val.efs)].type = "PADDING"

\* The step is a receive_request run that answered an NTPv4 request
V4Answered ==
    /\ op' = "receive_request"
    /\ srv_out' # Nothing
    /\ srv_in'.val.version = 4

\* The answer to the NTPv4 request has origin_ts = the request's receive_ts
\* and is no basic answer
V4InterleavedAnswer ==
    /\ srv_out'.val.origin_ts = srv_in'.val.receive_ts
    /\ srv_in'.val.receive_ts # srv_in'.val.transmit_ts

\* What C10 says of one answered NTPv4 request, where `before` are the keys
\* whose entry counts as revealed before the request.
V4Pairing(before) ==
    LET q == srv_in'.val
        a == srv_out'.val
        key == q.origin_ts
    IN /\ IF V4InterleavedAnswer
          THEN /\ key \in DOMAIN saved_timestamps
               /\ a.transmit_ts = saved_timestamps[key]
               /\ key \notin before
               /\ key \notin DOMAIN saved_timestamps'
          ELSE a.origin_ts = q.transmit_ts
       \* the first follow-up quoting a saved key gets the saved value, one
       \* quoting a key that is not (or no longer) saved the basic answer
       /\ (q.receive_ts # q.transmit_ts /\ key \in DOMAIN saved_timestamps)
              => V4InterleavedAnswer
       /\ key \notin DOMAIN saved_timestamps => ~V4InterleavedAnswer

\* C10 as stated: in the interleaved path the transmit_ts is a saved value
\* that no earlier response (NTPv4 or NTPv5) has revealed.
C10_NeverRevealed ==
    [][V4Answered => V4Pairing(revealed.v4 \cup revealed.v5)]_vars

\* C10 amended: a v4 response carries origin_ts = the request's transmit_ts
\* (basic) or receive_ts (interleaved); in the interleaved path its
\* transmit_ts is the value saved under the request's origin_ts, an entry no
\* NTPv4 request was given before (NTPv5 interleaved requests may have been
\* given it, as they do not consume entries), and the entry is removed, so
\* that a second identical follow-up gets the basic answer.
C10_V4SingleUse ==
    [][V4Answered => V4Pairing(revealed.v4)]_vars

\* an NTPv4 follow-up was given a saved transmit_ts and its entry is gone
C10_Witness ==
    /\ Sent
    /\ srv_in.val.version = 4
    /\ srv_in.val.receive_ts # srv_in.val.transmit_ts
    /\ srv_out.val.origin_ts = srv_in.val.receive_ts
    /\ srv_in.val.origin_ts \in revealed.v4
    /\ srv_in.val.origin_ts \notin DOMAIN saved_timestamps

\* The step left an NTPv5 response to a decodable NTPv5 request
V5Answered == Sent /\ srv_in.val.version = 5 /\ srv_out.val.version = 5

\* C11: an NTPv5 response carries the client_cookie of its request,
\* whatever the flags, the server_cookie and the extension fields of the
\* request are.
C11_CookieEchoed ==
    V5Answered => srv_out.val.client_cookie = srv_in.val.client_cookie

\* a request with extension fields and one with the INTERLEAVED flag and a
\* server_cookie other than its client_cookie were answered
C11_Witness ==
    /\ V5Answered
    /\ srv_in.val.client_cookie # 0
    /\ srv_in.val.client_cookie # srv_in.val.server_cookie
    /\ HasFlag(srv_out.val.flags, FLAG_INTERLEAVED)
    /\ srv_out.val.client_cookie = srv_in.val.client_cookie

\* C18 as stated: every NTPv5 response carries as server_cookie the
\* receive_ts the server captured for the request, with and without the
\* INTERLEAVED flag in the request.
C18_CookieIsReceiveTs ==
    V5Answered => srv_out.val.server_cookie = srv_rx_ts

\* C18: the server_cookie of an NTPv5 response is the receive_ts captured
\* for the request when the request has the INTERLEAVED flag, and 0 when it
\* has not.
C18_CookieIfInterleaved ==
    V5Answered
    => srv_out.val.server_cookie
          = IF HasFlag(srv_in.val.flags, FLAG_INTERLEAVED)
            THEN srv_rx_ts ELSE 0

\* a request with the flag got the receive_ts, which is then a saved key
C18_Witness ==
    /\ V5Answered
    /\ HasFlag(srv_in.val.flags, FLAG_INTERLEAVED)
    /\ srv_out.val.server_cookie = srv_rx_ts
    /\ srv_rx_ts # 0
    /\ srv_rx_ts \in DOMAIN saved_timestamps
\* max_timestamps + 1 requests with distinct keys were answered since the
\* cache was empty, the last of them by the last step
Filled == Sent /\ hist.answered = max_timestamps + 1 /\ hist.distinct

-----------------------------------------------------------------------------
(* Claims about the datagrams decode rejects *)

\* The length of d is below 48 or no multiple of 4, its version is neither
\* 4 nor 5, or it is an NTPv5 message without a DRAFT_ID field holding the
\* draft identifier of this implementation
Rejectable(d) ==
    \/ d.len < 48
    \/ d.len % 4 # 0
    \/ d.version \notin {4, 5}
    \/ /\ d.version = 5
       /\ \A i \in DOMAIN d.efs :
             ~(d.efs[i].type = "DRAFT_ID" /\ d.efs[i].text = OUR_DRAFT_ID)

\* C13: decode rejects every such datagram; the server then sends no
\* response and saves no timestamp, and the client changes no state.
C13_Rejected ==
    [][/\ (op' = "receive_request" /\ Rejectable(srv_in'.val))
          => /\ ~Decode(srv_in'.val).ok
             /\ srv_out' = Nothing
             /\ saved_timestamps' = saved_timestamps
             /\ timestamp_queue' = timestamp_queue
       /\ (op' = "receive_response" /\ Rejectable(net'.val))
          => /\ ~Decode(net'.val).ok
             /\ clients' = clients]_vars

\* a client waiting for a response, with a sample, received a datagram of
\* 49 octets
C13_Witness ==
    /\ op = "receive_response"
    /\ net.val.len = 49
    /\ Rejectable(net.val)
    /\ clients[1].missed_responses > 0
    /\ clients[1].prev_response # Nothing

-----------------------------------------------------------------------------
(* Claims about the client *)

\* C3: whatever datagram is delivered, in whatever state, the handler
\* returns normally: no exception escapes receive_response into
\* process_events.
C3_NoEscape == raised = "none"

\* C5: a client with auto_version that was at version 5 when it last
\* accepted a response is at version 4 once send_request was called 9 times
\* since, and still at version 5 while it was called at most 8 times.
C5_Downgrade ==
    LET c == clients[1]
    IN (c.auto_version /\ hist.ver_at_accept = 5)
       => /\ hist.sends >= 9 => c.version = 4
          /\ hist.sends <= 8 => c.version = 5

C5_Witness ==
    /\ clients[1].auto_version
    /\ hist.ver_at_accept = 5
    /\ hist.sends = 9
    /\ clients[1].version = 4

\* The end of the octet range of position p with f fragments
PositionEnd(p, f) ==
    Min(REFERENCE_IDS_OCTETS, (p + 1) * (REFERENCE_IDS_OCTETS \div f))

\* The fragments put one after the other in position order, position 0 in
\* the most significant octets
Concat(frags, f) ==
    UNION { {b + 8 * (REFERENCE_IDS_OCTETS - PositionEnd(p, f)) : b \in frags[p]}
            : p \in DOMAIN frags }

-----------------------------------------------------------------------------
(* Claims about the reference of the server and the source selection *)

\* C4: when select_sources selected at least one client, the stratum of
\* the server is one more than the stratum of the winner's sample, the
\* winner being a selected client with the smallest sort key, and the
\* reference_id of the server is the address of that same winner.
C4_WinnerStratum ==
    (op = "poll" /\ selected_sources # <<>>)
    => \E w \in DOMAIN hist.included :
         /\ \A b \in DOMAIN hist.included :
               SortKey(hist.included[w]) <= SortKey(hist.included[b])
         /\ server.stratum = hist.included[w].stratum + 1
         /\ server.reference_id = AddressInt(w)

\* C8: every bit of own_reference_id is set in the reference_ids of the
\* server, and own_reference_id is what it was at construction, after any
\* calls of set_reference.
C8_OwnAdvertised ==
    /\ own_reference_id \subseteq server.reference_ids
    /\ own_reference_id = hist.own

C8_Witness ==
    /\ op = "set_reference"
    /\ server.stratum = 16
    /\ own_reference_id = {5, 1030, 2047}
    /\ server.reference_ids = {0, 5, 7, 1030, 2047}

\* C9: a client that had, when select_sources ran, a sample within
\* max_distance, complete refids if at version 5, and every bit of
\* own_reference_id in its reference_ids is not among the selected sources,
\* and its selection delay is in 1..4.
C9_LoopExcluded ==
    op = "poll"
    => \A a \in hist.loop :
         /\ \A i \in DOMAIN selected_sources : selected_sources[i] # a
         /\ selection_delays[a] \in 1..4

C9_Witness ==
    /\ op = "poll"
    /\ hist.loop = {1}
    /\ selected_sources = <<2>>
    /\ selection_delays[1] = 4
    /\ clients[1].version = 5


-----------------------------------------------------------------------------
(* Claims about the negotiation of the version *)

\* What C6 says of the exchange so far: the first request is an NTPv4 one
\* with the magic reference timestamp, the first response is an NTPv4 one
\* with it, the client is at version 5 once that response was delivered,
\* and every later request is an NTPv5 one
Negotiated ==
    /\ Len(hist.requests) >= 1
       => /\ hist.requests[1].version = 4
          /\ hist.requests[1].reference_ts = NTP5_MAGIC
    /\ Len(hist.answers) >= 1
       => /\ hist.answers[1].version = 4
          /\ hist.answers[1].reference_ts = NTP5_MAGIC
    /\ hist.delivered >= 1 => clients[1].version = 5
    /\ \A i \in 2..Len(hist.requests) : hist.requests[i].version = 5

\* C6 as stated: a client with auto_version that polls a server of
\* stratum > 0, every response arriving before the next request, probes
\* with NTPv4, is answered with the magic value, switches to NTPv5 and
\* stays there.
C6_NegotiatesV5 == (hist.prompt /\ server.stratum > 0) => Negotiated

\* C6: the same for a server of stratum 1..15 whose responses advertise a
\* root distance of at most 16 seconds; every response delivered is then
\* accepted.
C6_NegotiatesWithinRange ==
    (/\ hist.prompt
     /\ server.stratum \in 1..15
     /\ \A i \in DOMAIN hist.answers :
           hist.answers[i].root_delay + 2 * hist.answers[i].root_disp
              <= 2 * 16000)
    => /\ Negotiated
       /\ (hist.delivered = Len(hist.requests) /\ hist.delivered >= 1)
          => clients[1].missed_responses = 0

C6_Witness ==
    /\ hist.prompt
    /\ server.stratum = 15
    /\ Len(hist.requests) = MaxRequests
    /\ hist.delivered = MaxRequests
    /\ clients[1].interleaved
    /\ clients[1].version = 5
    /\ HasFlag(clients[1].prev_response.val.flags, FLAG_INTERLEAVED)

-----------------------------------------------------------------------------
(* Claims about encode followed by decode *)

\* decode returned a message equal to N but for root_delay and root_disp,
\* which went through get_rint
SameUpToRounding(N, r) ==
    /\ r.ok
    /\ r.msg = [N EXCEPT !.root_delay = GetRint(N.version, N.root_delay),
                         !.root_disp = GetRint(N.version, N.root_disp)]

\* The fields of the other protocol version are as decode leaves them, a
\* REFERENCE_IDS_REQ asks for at least 2 octets, a secondary_rx_ts dict holds
\* exactly UTC, and an NTPv4 message has no extension fields
DecodedForm(N) ==
    /\ N.version = 5 => N.leap4 = NoneInt
    /\ N.version = 4 => N.leap5 = NoneInt /\ N.timescale = TIMESCALE_UTC
    /\ N.reference_ids_req # Nothing => N.reference_ids_req.val[2] >= 2
    /\ N.secondary_rx_ts # Nothing =>
           DOMAIN N.secondary_rx_ts.val = {TIMESCALE_UTC}
    /\ N.version = 4 => EncodeEFs(N) = <<>>

\* C14 as stated: for every NtpMessage N with version 4 or 5, stratum 0..16
\* and any subset of the extension fields, decode(encode(N)) equals N up to
\* the saturating rounding of root_delay and root_disp.
C14_RoundTrip ==
    op = "round_trip" => SameUpToRounding(hist.message, hist.decoded)

\* C14 amended: decode(encode(N)) equals N up to the saturating rounding of
\* root_delay and root_disp for every N that has stratum at most 15, the
\* fields of the other protocol version as decode leaves them, the draft ID
\* of this implementation if it is NTPv5 and no extension field if it is
\* NTPv4, a REFERENCE_IDS_REQ length of at least 2 and a secondary_rx_ts
\* that is absent or holds exactly the UTC timescale.
C14_RoundTripDecodedForm ==
    op = "round_trip" =>
        LET N == hist.message IN
        (/\ N.stratum <= 15
         /\ DecodedForm(N)
         /\ N.version = 5 => N.draft_id = Just(OUR_DRAFT_ID))
        => SameUpToRounding(N, hist.decoded)

\* An NTPv5 message of stratum 15 with every extension field and a root
\* delay above 16 s went through encode and decode.
C14_Witness ==
    /\ op = "round_trip"
    /\ hist.message.version = 5
    /\ hist.message.stratum = 15
    /\ hist.message.root_delay > 16000
    /\ hist.message.server_info # Nothing
    /\ hist.message.reference_ids_req # Nothing
    /\ hist.message.reference_ids_resp # Nothing
    /\ hist.message.reference_ts_ # Nothing
    /\ hist.message.secondary_rx_ts # Nothing
    /\ DecodedForm(hist.message)
    /\ hist.decoded.ok
    /\ hist.decoded.msg.root_delay = 16000

-----------------------------------------------------------------------------
(* Claims about the responses a client drops *)

\* Decodable datagram d fails a step of the validation chain of client c
FailsValidation(c, d) ==
    /\ Decode(d).ok
    /\ LET response == Decode(d).msg
       IN \/ c.missed_responses = 0
          \/ response.mode # MODE_SERVER
          \/ Pairing(c, response) = "bogus"
          \/ Unsynchronized(response)
          \/ response.timescale # c.timescale

\* The fields of the client's state
StateOf(c) ==
    <<c.reference_id, c.reference_ids, c.next_refids_fragment,
      c.complete_refids, c.sample, c.prev_response, c.prev_receive_ts,
      c.missed_responses, c.version>>

\* C15: when a response fails any step of the client's validation chain,
\* every field of the client's state (reference_id, reference_ids,
\* next_refids_fragment, complete_refids, sample, prev_response,
\* prev_receive_ts, missed_responses, version) is the same after
\* receive_response as before it.
C15_FailedLeavesState ==
    [][(/\ op' = "receive_response"
        /\ net' # Nothing
        /\ FailsValidation(clients[1], net'.val))
       => StateOf(clients'[1]) = StateOf(clients[1])]_vars

-----------------------------------------------------------------------------
(* Claims about the completeness of the collected reference IDs *)

\* C16: whenever an NTPv5 client has complete_refids set, every fragment
\* position of its accumulator holds a fragment received since the
\* accumulator was last cleared (by an NTPv4 response or by an NTPv5
\* response without REFERENCE_IDS_RESP).
C16_CompleteMeansFilled ==
    LET c == clients[1]
    IN (c.version = 5 /\ c.complete_refids)
       => hist.filled = 0..(Positions(c.refids_fragments) - 1)

-----------------------------------------------------------------------------
(* Claims about unexpected responses *)

\* C17: a datagram received by a client while missed_responses = 0 is
\* dropped without any change of the client's state, and between two
\* consecutive send_request calls a client accepts at most one response,
\* however many responses arrive.
C17_OneAcceptPerRequest ==
    [][op' = "receive_response" =>
          /\ clients[1].missed_responses = 0 =>
                /\ clients'[1] = clients[1]
                /\ hist'.accepts = hist.accepts
          /\ hist'.accepts <= 1]_vars

\* After a response was accepted, another valid response to the same
\* request, carrying a different fragment, arrived and was dropped.
C17_Witness ==
    /\ op = "receive_response"
    /\ hist.accepts = 1
    /\ clients[1].missed_responses = 0
    /\ net # Nothing
    /\ Decode(net.val).ok
    /\ LET response == Decode(net.val).msg
       IN /\ response.mode = MODE_SERVER
          /\ Pairing(clients[1], response) = "basic"
          /\ ~Unsynchronized(response)
          /\ response.timescale = clients[1].timescale
          /\ response.reference_ids_resp # Nothing
          /\ clients[1].prev_response # Just(response)

-----------------------------------------------------------------------------
(* Claims about successive selection cycles *)

\* C19: a peer for which select_sources detected a synchronization loop in
\* one selection cycle is not among the selected sources of the immediately
\* following cycle, whatever penalty 1..4 was drawn and even if the peer
\* shows no loop in that following cycle.
C19_NotSelectedNextCycle ==
    op = "poll" =>
        \A a \in hist.before :
            \A i \in DOMAIN selected_sources : selected_sources[i] # a

\* C20: after every run of select_sources the sample of every client is
\* empty, whether the client was selected or not, so a sample is inspected
\* by one run only: a run that follows another with no response received in
\* between selects nothing and leaves the reference of the server alone.
C20_SampleConsumedOnce ==
    [][op' = "poll" =>
          /\ \A a \in Addresses : clients'[a].sample = Nothing
          /\ op = "poll" => (selected_sources' = <<>> /\ server' = server)]_vars

\* select_sources selected one client and found another, which also had a
\* sample, in a loop; both samples are gone.
C20_Witness ==
    /\ op = "poll"
    /\ selected_sources # <<>>
    /\ hist.detected # {}
    /\ \A a \in Addresses : clients[a].sample = Nothing

-----------------------------------------------------------------------------
(* Claims about the protocol version of a client *)

\* C21: the version of a client changes only in two ways, both of a client
\* with auto_version: from 4 to 5 when receive_response accepts a response
\* whose reference_ts is NTP5_MAGIC, and from 5 to 4 in send_request when
\* missed_responses exceeds 8; a client created with version 4 or 5 keeps it.
C21_VersionTransitions ==
    [][clients'[1].version # clients[1].version =>
          /\ clients[1].auto_version
          /\ \/ /\ op' = "receive_response"
                /\ clients[1].version = 4
                /\ clients'[1].version = 5
                /\ hist'.accepts = hist.accepts + 1
                /\ Decode(net'.val).msg.reference_ts = NTP5_MAGIC
             \/ /\ op' = "send_request"
                /\ clients[1].version = 5
                /\ clients'[1].version = 4
                /\ clients'[1].missed_responses > 8]_vars

\* An automatic client has just accepted an NTPv4 response with the magic
\* reference timestamp and is at version 5.
C21_Witness ==
    /\ op = "receive_response"
    /\ clients[1].auto_version
    /\ clients[1].version = 5
    /\ clients[1].last_request.val.version = 4
    /\ hist.accepts = 1
    /\ net # Nothing
    /\ Decode(net.val).ok
    /\ Decode(net.val).msg.reference_ts = NTP5_MAGIC

\* C22: an NTPv5 request built by make_request carries the server_cookie of
\* the previous accepted response exactly when the client is configured for
\* interleaved mode, a previous response exists, it has the client's current
\* version and at most 4 requests, this one included, were sent since it was
\* accepted; otherwise the request carries server_cookie 0.
C22_ServerCookieOfRequest ==
    LET c == clients[1]
        request == c.last_request.val
    IN (op = "send_request" /\ request.version = 5) =>
          request.server_cookie =
             IF /\ c.interleaved
                /\ c.prev_response # Nothing
                /\ c.prev_response.val.version = 5
                /\ hist.sends <= 4
             THEN c.prev_response.val.server_cookie
             ELSE 0

\* The fourth request since the last accepted NTPv5 response quotes the
\* cookie of that response.
C22_Witness ==
    /\ op = "send_request"
    /\ clients[1].last_request.val.version = 5
    /\ hist.sends = 4
    /\ clients[1].prev_response # Nothing
    /\ clients[1].last_request.val.server_cookie
          = clients[1].prev_response.val.server_cookie
    /\ clients[1].last_request.val.server_cookie # 0

-----------------------------------------------------------------------------
(* Claims about the arithmetic of the sample *)

\* A difference of two timestamps modulo the wrap, read as a signed value
SignedDiff(a, b) ==
    LET m == (a - b) % TimestampWrap
    IN IF m >= TimestampWrap \div 2 THEN m - TimestampWrap ELSE m

\* C23: every timestamp difference of the sample derivation (T2-T1, T3-T4,
\* T4-T1, T3-T2) is taken modulo the wrap of the timestamp field and read as
\* a signed value, so for timestamps on both sides of the wrap the offset
\* and the delay are those of the small true differences.
C23_WrapAroundDifferences ==
    (op = "receive_response" /\ clients[1].sample # Nothing) =>
        LET T1 == hist.T[1]
            T2 == hist.T[2]
            T3 == hist.T[3]
            T4 == hist.T[4]
            sample == clients[1].sample.val
        IN /\ sample.offset_x2 = SignedDiff(T2, T1) + SignedDiff(T3, T4)
           /\ sample.delay
                 = (Abs(SignedDiff(T4, T1) - SignedDiff(T3, T2)) * 1000)
                      \div TicksPerSecond

-----------------------------------------------------------------------------
(* Claims about datagrams that are not requests *)

\* C24: for a well-formed datagram whose mode is not CLIENT receive_request
\* sends no response and leaves saved_timestamps, timestamp_queue and the
\* reference of the server unchanged; every response the server sends has
\* mode SERVER, so a server never answers the response of another.
C24_OnlyRequestsAnswered ==
    [][op' = "receive_request" =>
          /\ (Decode(srv_in'.val).ok
                /\ Decode(srv_in'.val).msg.mode # MODE_CLIENT)
             => /\ srv_out' = Nothing
                /\ saved_timestamps' = saved_timestamps
                /\ timestamp_queue' = timestamp_queue
                /\ server' = server
                /\ raised' = "none"
          /\ srv_out' # Nothing => srv_out'.val.mode = MODE_SERVER]_vars

\* A mode SERVER message arrived at a server whose cache is full and whose
\* saved receive timestamp it quotes as origin timestamp.
C24_Witness ==
    /\ op = "receive_request"
    /\ Decode(srv_in.val).ok
    /\ Decode(srv_in.val).msg.mode = MODE_SERVER
    /\ srv_out = Nothing
    /\ Cardinality(DOMAIN saved_timestamps) = max_timestamps
    /\ Decode(srv_in.val).msg.origin_ts \in DOMAIN saved_timestamps

-----------------------------------------------------------------------------
(* Claims about the pairing of responses with requests *)

\* C25: a client publishes a sample only from a response that has the
\* version of its outstanding request and whose pairing field equals a
\* random value that request carried: the client_cookie for NTPv5, the
\* transmit_ts or, in an interleaved request, the receive_ts for NTPv4; a
\* response pairing on a constant 0 field is never accepted.
C25_PairedWithOutstanding ==
    [][(op' = "receive_response" /\ hist'.accepts = hist.accepts + 1) =>
          LET c == clients[1]
              request == c.last_request.val
              response == Decode(net'.val).msg
          IN /\ response.version = request.version
             /\ IF response.version = 5
                THEN response.client_cookie = request.client_cookie
                ELSE \/ response.origin_ts = request.transmit_ts
                     \/ /\ RequestInterleaved(c)
                        /\ response.origin_ts = request.receive_ts]_vars

-----------------------------------------------------------------------------
(* Claims about the timestamps of an interleaved sample *)

\* C26: whenever a client derives an interleaved sample, prev_transmit_ts is
\* the local transmit time of the request that prev_response answered and
\* prev_receive_ts the local receive time of prev_response, also when
\* requests went unanswered between prev_response and the current response.
C26_SameExchange ==
    [][(op' = "receive_response" /\ hist'.interleaved) =>
          /\ clients[1].prev_transmit_ts = hist.answered_tx
          /\ clients[1].prev_receive_ts = hist.answered_rx]_vars

-----------------------------------------------------------------------------
(* Claims about the order of eviction *)

\* C27: timestamp_queue never holds the same key twice and every key of
\* saved_timestamps occurs in timestamp_queue, whatever the clock returns,
\* a receive_ts it returned before included; so an entry leaves the map only
\* when an NTPv4 request consumes it or after max_timestamps later entries.
C27_QueueOfLiveKeys ==
    /\ \A i, j \in DOMAIN timestamp_queue :
          i # j => timestamp_queue[i] # timestamp_queue[j]
    /\ \A k \in DOMAIN saved_timestamps :
          \E i \in DOMAIN timestamp_queue : timestamp_queue[i] = k

====
